---------------------------- MODULE Spec2Model ----------------------------
(***************************************************************************)
(* A model of the open-government-data loaders:                            *)
(*                                                                         *)
(*   - the paginated barangay fetcher of                                   *)
(*     src/scripts/uacs/location/converter.py (fetch_batch,                *)
(*     fetch_barangays_from_api, retry_failed_pages), with its batch       *)
(*     checkpoints and its retry manifest failed_pages.json;               *)
(*   - convert_all of the same file, which runs the retry and then the     *)
(*     fetch and writes barangays_retry_results.json and barangays.json;   *)
(*   - the Neo4j loader of src/sync.py (batch_create_nodes,                *)
(*     create_relationships_simple, the steps of sync_all and the paged    *)
(*     budget-record relationship loops of sync_budget_records), with the  *)
(*     statements a sync_all run has sent kept in trace;                   *)
(*   - the validator of src/validator.py;                                  *)
(*   - the converters of single records and of the reference files, and    *)
(*     the budget converter of src/scripts/nep-gaa/converter.py.           *)
(*                                                                         *)
(* Spec is the fetcher, SpecLocation convert_all over the fetcher,         *)
(* SpecSync the loader, SpecSyncErr the loader with a backend that may     *)
(* raise, SpecRerun the loader run again over files that have changed,     *)
(* SpecValidate the validator, SpecParse and SpecConvert the converters.   *)
(* The components share no state.                                          *)
(* Timestamps written into the files and console output are left out:     *)
(* nothing in the code reads them back.                                    *)
(***************************************************************************)
EXTENDS Integers, Sequences, FiniteSets, Bags, TLC

(***************************************************************************)
(* Bounds of the model.                                                    *)
(***************************************************************************)
\* pages of the remote source are numbered 1..MaxPage
MaxPage == 3
\* batch_size ranges over 1..MaxBatch
MaxBatch == 2
\* number of fetch / retry invocations in one behaviour
MaxRuns == 3
\* number of records a page of the remote source holds
RecsPerPage == 2

\* ThreadPoolExecutor(max_workers=10)
max_workers == 10

VARIABLES
    \* ---- files under output_dir
    manifest,          \* failed_pages.json: <<>> (no file) or <<its JSON object>>
    checkpoints,       \* barangays_batch_<s>_<e>.json, keyed by <<s, e>>
    \* ---- the running invocation
    op,                \* "none" | "fetch" | "retry"
    pc,                \* "idle" | "loop" | "pool"
    start_page, end_page, batch_size,
    batch_start,       \* loop variable of fetch_barangays_from_api
    all_barangays, all_failed_pages,
    pages, fut, records, failed,    \* fetch_batch: argument, futures, locals
    failed_data,       \* retry_failed_pages: the manifest as loaded
    result,            \* what the last finished invocation returned
    \* ---- history of the running (or last) invocation
    requested,         \* page -> number of requests issued
    outcome,           \* page -> how its request ended ("none": not requested)
    written,           \* batch ranges checkpointed, in order
    runs,              \* invocations started so far
    \* ---- convert_all of the location converter (SpecLocation)
    locconv,           \* its position, its local retry_records and the files
                       \* barangays_retry_results.json and barangays.json
    \* ---- the graph store and the loader (SpecSync)
    nodes,             \* label -> the nodes of the label, in creation order
    edges,             \* bag of <<type, from, to>>, a node being <<label, position>>
    spc,               \* the step sync_all is at
    loc,               \* sync_location: loop variables of its paging loop
    sync,              \* sync_budget_records: arguments and loop variables
    files,             \* the files under data/
    trace,             \* the statements of the running sync_all, or of the last
                       \* one if it ran to its end
    \* ---- the validator (SpecValidate)
    vstatus,           \* validate_all: "idle" | "running" | "complete" | "raised"
    check,             \* the number of checks validate_all has printed or passed
    vresult,           \* what the last run_query returned
    printed,           \* what validate_all has printed, check by check
    \* ---- the converters of single records (SpecParse)
    parse,             \* the record handed to a converter and what it returned
    \* ---- the budget converter (SpecConvert)
    input_dir,         \* the *.json files under input/: name -> raw records
    output_dir,        \* the files written under data/budget: path -> content
    cpc,               \* convert_all: "idle" | "files" | "records" | "mapping" | "done"
    json_files,        \* convert_all: the files still to convert
    cur,               \* convert_file: its locals
    history            \* history: <<file, idx, id>> of each record converted

fetchVars == <<manifest, checkpoints, op, pc, start_page, end_page, batch_size,
               batch_start, all_barangays, all_failed_pages, pages, fut,
               records, failed, failed_data, result, requested, outcome,
               written, runs>>
syncVars == <<nodes, edges, spc, loc, sync, files, trace>>
valVars == <<vstatus, check, vresult, printed>>
convVars == <<parse, input_dir, output_dir, cpc, json_files, cur, history>>
locVars == <<locconv>>
vars == <<fetchVars, syncVars, valVars, convVars, locVars>>

Pages == 1..MaxPage

Min(a, b) == IF a < b THEN a ELSE b

\* sorted(xs) for a list of page numbers
Sorted(xs) == SortSeq(xs, LAMBDA a, b : a < b)

\* list(range(a, b + 1))
Range(a, b) == [i \in 1..(IF b >= a THEN b - a + 1 ELSE 0) |-> a + i - 1]

SeqToSet(s) == {s[i] : i \in DOMAIN s}

\* the data array of page p of the remote source
PageData(p) == [i \in 1..RecsPerPage |-> <<p, i>>]

\* what one request can come to: an exception (network error, non-2xx status,
\* malformed body), a 2xx answer whose data array is empty or missing, or a
\* 2xx answer carrying the page's records
Outcomes == {"error", "empty", "ok"}

\* the value of failed_data while no manifest has been loaded
NoManifest == [failed_pages |-> <<>>, total_failed |-> 0]

NoPages == [p \in Pages |-> 0]
NoOutcome == [p \in Pages |-> "none"]


(***************************************************************************)
(* The fetcher: src/scripts/uacs/location/converter.py                     *)
(***************************************************************************)
FetchInit ==
    /\ manifest = <<>>
    /\ checkpoints = [k \in {} |-> <<>>]
    /\ op = "none"
    /\ pc = "idle"
    /\ start_page \in Pages
    /\ end_page \in Pages
    /\ batch_size \in 1..MaxBatch
    /\ batch_start = 1
    /\ all_barangays = <<>>
    /\ all_failed_pages = <<>>
    /\ pages = <<>>
    /\ fut = <<>>
    /\ records = <<>>
    /\ failed = <<>>
    /\ failed_data = NoManifest
    /\ result = <<>>
    /\ requested = NoPages
    /\ outcome = NoOutcome
    /\ written = <<>>
    /\ runs = 0

\* no invocation is running
Returned == pc \in {"idle", "done", "interrupted"}

\* fetch_batch is entered: one future per element of the page list
\* (executor.submit for every page), records and failed empty
EnterFetchBatch(ps) ==
    /\ pages' = ps
    /\ fut' = [i \in DOMAIN ps |-> "queued"]
    /\ records' = <<>>
    /\ failed' = <<>>

\* fetch_batch has returned: its futures and locals are gone
LeaveFetchBatch ==
    /\ pages' = <<>>
    /\ fut' = <<>>
    /\ records' = <<>>
    /\ failed' = <<>>

\* how the history remembers a request once its batch is over: as failed,
\* whichever way it failed
Settled(o) == IF o \in {"error", "empty"} THEN "failed" ELSE o

\* a new invocation starts with fresh locals and a fresh history
NewInvocation ==
    /\ Returned
    /\ runs < MaxRuns
    /\ runs' = runs + 1
    /\ all_barangays' = <<>>
    /\ all_failed_pages' = <<>>
    /\ requested' = NoPages
    /\ outcome' = NoOutcome
    /\ written' = <<>>
    /\ result' = <<>>

\* fetch_barangays_from_api(start_page, end_page, batch_size) is called, with
\* the arguments of this deployment's command line
FetchBarangaysFromApi ==
    /\ NewInvocation
    /\ op' = "fetch"
    /\ pc' = "loop"
    /\ batch_start' = start_page
    /\ UNCHANGED <<start_page, end_page, batch_size>>
    /\ LeaveFetchBatch
    /\ failed_data' = NoManifest
    /\ UNCHANGED <<manifest, checkpoints>>

\* batch_end as it would be without the min(): the last batch runs past
\* end_page
batch_end_unclipped == batch_start + batch_size - 1

\* min(batch_start + batch_size - 1, end_page)
batch_end == Min(batch_start + batch_size - 1, end_page)

\* BatchPages as a resuming fetcher would build it: the pages an existing
\* checkpoint of this batch records as succeeded are left out
BatchPagesResumed ==
    LET k == <<batch_start, batch_end>>
        Done(q) == /\ k \in DOMAIN checkpoints
                   /\ q \notin SeqToSet(checkpoints[k].failed_pages)
    IN  SelectSeq(Range(batch_start, batch_end), LAMBDA q : ~Done(q))

\* the pages the next batch asks fetch_batch for
BatchPages == Range(batch_start, batch_end)

\* one iteration of the for loop begins: the batch's page list is built and
\* handed to fetch_batch
BatchBegin ==
    /\ pc = "loop"
    /\ op = "fetch"
    /\ batch_start <= end_page
    /\ EnterFetchBatch(BatchPages)
    /\ pc' = "pool"
    /\ UNCHANGED <<manifest, checkpoints, op, start_page, end_page, batch_size,
                   batch_start, all_barangays, all_failed_pages, failed_data,
                   result, requested, outcome, written, runs>>

\* a worker may run future i: the pool takes futures in submission order and
\* runs at most max_workers of them at a time
MayRun(i) ==
    /\ fut[i] = "queued"
    /\ Cardinality({j \in 1..(i - 1) : fut[j] = "queued"}) < max_workers

\* fetch_single_page(pages[i]) runs in a worker and ends with outcome o
FetchSinglePage(i, o) ==
    /\ pc = "pool"
    /\ i \in DOMAIN fut
    /\ MayRun(i)
    /\ fut' = [fut EXCEPT ![i] = o]
    /\ requested' = [requested EXCEPT ![pages[i]] = @ + 1]
    /\ outcome' = [outcome EXCEPT ![pages[i]] = o]
    /\ UNCHANGED <<manifest, checkpoints, op, pc, start_page, end_page,
                   batch_size, batch_start, all_barangays, all_failed_pages,
                   pages, records, failed, failed_data, result, written, runs>>

\* CollectRecords as it would be if the loop assigned the page's data to
\* records: what earlier futures brought is lost
CollectRecordsAssigned(recs, p, o) == IF o = "ok" THEN PageData(p) ELSE recs

\* the records list after the result o of page p is taken
CollectRecords(recs, p, o) == IF o = "ok" THEN recs \o PageData(p) ELSE recs

\* CollectFailed as it would be if a page without data counted as fetched
CollectFailedOnError(fl, p, o) == IF o = "error" THEN Append(fl, p) ELSE fl

\* the failed list after the result o of page p is taken: an exception and an
\* empty data array both put the page on it
CollectFailed(fl, p, o) == IF o = "ok" THEN fl ELSE Append(fl, p)

\* the as_completed loop takes the result of a finished future
Collect(i) ==
    /\ pc = "pool"
    /\ i \in DOMAIN fut
    /\ fut[i] \in Outcomes
    /\ records' = CollectRecords(records, pages[i], fut[i])
    /\ failed' = CollectFailed(failed, pages[i], fut[i])
    /\ fut' = [fut EXCEPT ![i] = "collected"]
    /\ UNCHANGED <<manifest, checkpoints, op, pc, start_page, end_page,
                   batch_size, batch_start, all_barangays, all_failed_pages,
                   pages, failed_data, result, requested, outcome, written, runs>>

\* BatchReturned as it would be if a failure ended the as_completed loop:
\* fetch_batch returns as soon as a page is on the failed list
BatchReturnedOnFailure ==
    /\ pc = "pool"
    /\ \/ \A i \in DOMAIN fut : fut[i] = "collected"
       \/ failed # <<>>

\* fetch_batch returns: every future's result has been taken
BatchReturned == pc = "pool" /\ \A i \in DOMAIN fut : fut[i] = "collected"

\* Checkpoint as it would be with the run's failed pages so far in place of
\* the batch's
CheckpointCumulative(bs, be, recs, fl) ==
    [batch_range |-> <<bs, be>>, records_count |-> Len(recs),
     failed_pages |-> all_failed_pages \o fl, data |-> recs]

\* the JSON object of a batch checkpoint
Checkpoint(bs, be, recs, fl) ==
    [batch_range |-> <<bs, be>>, records_count |-> Len(recs),
     failed_pages |-> fl, data |-> recs]

\* the checkpoint files after the batch bs..be is saved
WriteCheckpoint(cps, bs, be, recs, fl) ==
    (<<bs, be>> :> Checkpoint(bs, be, recs, fl)) @@ cps

\* the rest of the loop body: the batch's results are added to the totals and
\* the batch checkpoint is written
SaveCheckpoint ==
    /\ BatchReturned
    /\ op = "fetch"
    /\ all_barangays' = all_barangays \o records
    /\ all_failed_pages' = all_failed_pages \o failed
    /\ checkpoints' = WriteCheckpoint(checkpoints, batch_start, batch_end,
                                      records, failed)
    /\ written' = Append(written, <<batch_start, batch_end>>)
    /\ batch_start' = batch_start + batch_size
    /\ pc' = "loop"
    /\ LeaveFetchBatch
    /\ outcome' = [p \in Pages |-> Settled(outcome[p])]
    /\ UNCHANGED <<manifest, op, start_page, end_page, batch_size,
                   failed_data, result, requested, runs>>

\* FetchManifest as it would be if the list were cut the way the console
\* message cuts it (sorted(all_failed_pages)[:1])
FetchManifestCut(old, allFailed) ==
    IF allFailed # <<>>
    THEN <<[failed_pages |-> SubSeq(Sorted(allFailed), 1, 1),
            total_failed |-> Len(allFailed)]>>
    ELSE old

\* FetchManifest as it would be if a run without failures removed the file
FetchManifestCleared(old, allFailed) ==
    IF allFailed # <<>>
    THEN <<[failed_pages |-> Sorted(allFailed), total_failed |-> Len(allFailed)]>>
    ELSE <<>>

\* the manifest fetch_barangays_from_api leaves: written when a page failed,
\* otherwise whatever was there
FetchManifest(old, allFailed) ==
    IF allFailed # <<>>
    THEN <<[failed_pages |-> Sorted(allFailed), total_failed |-> Len(allFailed)]>>
    ELSE old

\* the loop is over: the manifest is written and the records are returned
FetchComplete ==
    /\ pc = "loop"
    /\ op = "fetch"
    /\ batch_start > end_page
    /\ manifest' = FetchManifest(manifest, all_failed_pages)
    /\ result' = all_barangays
    /\ pc' = "done"
    /\ UNCHANGED <<checkpoints, op, start_page, end_page, batch_size,
                   batch_start, all_barangays, all_failed_pages, pages, fut,
                   records, failed, failed_data, requested, outcome, written,
                   runs>>

\* KeyboardInterrupt between two batches: the invocation ends there, with the
\* checkpoints written so far and without touching the manifest
Interrupt ==
    /\ pc = "loop"
    /\ written # <<>>
    /\ batch_start <= end_page
    /\ pc' = "interrupted"
    /\ UNCHANGED <<manifest, checkpoints, op, start_page, end_page, batch_size,
                   batch_start, all_barangays, all_failed_pages, pages, fut,
                   records, failed, failed_data, result, requested, outcome,
                   written, runs>>

\* RetryAttempt as it would be if the stored counter were never read
RetryAttemptUnread(fd) == 0

\* failed_data.get('retry_attempt', 0)
RetryAttempt(fd) ==
    IF "retry_attempt" \in DOMAIN fd THEN fd.retry_attempt ELSE 0

\* RetryPages as it would be if the retry took the span from the first to
\* the last failed page
RetryPagesSpan(fd) ==
    IF fd.failed_pages = <<>> THEN <<>>
    ELSE Range(fd.failed_pages[1], fd.failed_pages[Len(fd.failed_pages)])

\* failed_data.get('failed_pages', []): the pages a retry hands to fetch_batch
RetryPages(fd) == fd.failed_pages

\* RetryFailedPages as it would be if the manifest were opened for writing
\* before it is looked for: a missing file comes into being, with no pages
RetryFailedPagesCreates ==
    /\ NewInvocation
    /\ op' = "retry"
    /\ batch_start' = start_page
    /\ UNCHANGED <<start_page, end_page, batch_size>>
    /\ failed_data' = IF manifest = <<>> THEN NoManifest ELSE manifest[1]
    /\ manifest' = IF manifest = <<>> THEN <<NoManifest>> ELSE manifest
    /\ IF manifest = <<>> \/ RetryPages(manifest[1]) = <<>>
       THEN pc' = "done" /\ LeaveFetchBatch
       ELSE pc' = "pool" /\ EnterFetchBatch(RetryPages(manifest[1]))
    /\ UNCHANGED checkpoints

\* retry_failed_pages() is called: nothing to do without a manifest or with
\* an empty list, otherwise the listed pages go to fetch_batch
RetryFailedPages ==
    /\ NewInvocation
    /\ op' = "retry"
    /\ batch_start' = start_page
    /\ UNCHANGED <<start_page, end_page, batch_size>>
    /\ IF manifest = <<>>
       THEN /\ pc' = "done"
            /\ failed_data' = NoManifest
            /\ LeaveFetchBatch
       ELSE /\ failed_data' = manifest[1]
            /\ IF RetryPages(manifest[1]) = <<>>
               THEN /\ pc' = "done"
                    /\ LeaveFetchBatch
               ELSE /\ pc' = "pool"
                    /\ EnterFetchBatch(RetryPages(manifest[1]))
    /\ UNCHANGED <<manifest, checkpoints>>

\* the manifest retry_failed_pages leaves: rewritten with the pages that
\* failed again, or removed
RetryManifest(fd, stillFailed) ==
    IF stillFailed # <<>>
    THEN <<[failed_pages |-> Sorted(stillFailed),
            total_failed |-> Len(stillFailed),
            retry_attempt |-> RetryAttempt(fd) + 1]>>
    ELSE <<>>

\* fetch_batch has returned to retry_failed_pages
RetryFinish ==
    /\ BatchReturned
    /\ op = "retry"
    /\ manifest' = RetryManifest(failed_data, failed)
    /\ result' = records
    /\ pc' = "done"
    /\ LeaveFetchBatch
    /\ UNCHANGED <<checkpoints, op, start_page, end_page, batch_size,
                   batch_start, all_barangays, all_failed_pages, failed_data,
                   requested, outcome, written, runs>>


(***************************************************************************)
(* convert_all of the location converter, called with use_api=True.  The   *)
(* conversions of the region, province and city workbooks that run between *)
(* the retry and the fetch touch none of the state below and are left out. *)
(* A record of the remote source is parsed into one barangay; the          *)
(* barangay is written here as the record it was parsed from.              *)
(***************************************************************************)
\* convert_all is not running and has written nothing
LocIdle ==
    locconv = [pc |-> "idle", retry_failed |-> FALSE, listed |-> <<>>,
               retry_records |-> <<>>, retry_results |-> <<>>,
               barangays |-> <<>>]

\* BarangayList as it would be if the records the retry recovered were put
\* in front of the fetched ones
BarangayListMerged(api_records, retry_records) == retry_records \o api_records

\* convert_barangay_with_api: one barangay per record fetch_barangays_from_api
\* returned, in that order; retry_records is not an argument of it
BarangayList(api_records, retry_records) == api_records

\* convert_all(use_api=True, retry_failed=...) is called: with retry_failed
\* it begins with retry_failed_pages(), without it with the barangay fetch
LocationConvertAll(retry_failed) ==
    /\ locconv.pc \in {"idle", "done"}
    /\ IF retry_failed
       THEN /\ RetryFailedPages
            /\ locconv' = [locconv EXCEPT
                   !.pc = "retry",
                   !.retry_failed = TRUE,
                   !.listed = IF manifest = <<>> THEN <<>>
                              ELSE RetryPages(manifest[1]),
                   !.retry_records = <<>>]
       ELSE /\ FetchBarangaysFromApi
            /\ locconv' = [locconv EXCEPT
                   !.pc = "fetch",
                   !.retry_failed = FALSE,
                   !.listed = <<>>,
                   !.retry_records = <<>>]

\* retry_failed_pages() has returned to convert_all: a non-empty result is
\* saved as barangays_retry_results.json, then convert_barangay_with_api
\* calls fetch_barangays_from_api(api_start, api_end, batch_size)
LocationRetryReturned ==
    /\ locconv.pc = "retry"
    /\ pc = "done"
    /\ op = "retry"
    /\ locconv' = [locconv EXCEPT
           !.pc = "fetch",
           !.retry_records = result,
           !.retry_results = IF result # <<>> THEN <<result>> ELSE @]
    /\ FetchBarangaysFromApi

\* fetch_barangays_from_api has returned to convert_barangay_with_api: the
\* barangay list is built and saved as barangays.json
LocationSaveBarangays ==
    /\ locconv.pc = "fetch"
    /\ pc = "done"
    /\ op = "fetch"
    /\ locconv' = [locconv EXCEPT
           !.pc = "done",
           !.barangays = <<BarangayList(result, locconv.retry_records)>>]
    /\ UNCHANGED fetchVars

\* the fetcher called on its own, while convert_all is not running
Standalone == locconv.pc \in {"idle", "done"}


(***************************************************************************)
(* The graph store and the loader: src/sync.py                             *)
(*                                                                         *)
(* The store holds, per label, the nodes in the order they were created    *)
(* (a node is <<label, position>>, its properties a function from property *)
(* names to values) and a bag of edges <<type, parent node, child node>>.  *)
(* A query without ORDER BY reads the nodes of a label in that order.      *)
(***************************************************************************)
\* records in one budget file set
MaxRecords == 3
\* rel_batch = 10000 of sync_budget_records, scaled down
rel_batch == 2
\* batch_size = 5000 of sync_budget_records, scaled down
node_batch == 2
\* barangays in barangays.json
MaxBarangays == 4
\* batch_size = 10000 of the barangay upsert of sync_location, scaled down
barangay_batch == 2
\* batch_size = 50000 of the barangay paging loop of sync_location, scaled down
city_rel_batch == 2

\* a JSON null in an entity map
Null == "null"

Labels == {"Region", "Province", "CityMunicipality", "Barangay", "FundingSource",
           "Organization", "ExpenseGroup", "Object", "ExpenseObject", "SubObject",
           "BudgetRecord"}

\* the property each label is merged on, which is also the property its
\* uniqueness constraint names
KeyOf ==
    [l \in Labels |->
        CASE l = "Region" -> "code"
          [] l \in {"Province", "CityMunicipality", "Barangay"} -> "psgc_code"
          [] l = "BudgetRecord" -> "id"
          [] l \in {"ExpenseGroup", "Object", "ExpenseObject"} -> "full_code"
          [] OTHER -> "uacs_code"]

EmptyStore == [l \in Labels |-> <<>>]

\* SetPlus as it would be with SET n = map: the node is left with the
\* properties of the map alone
SetReplace(props, map) ==
    [a \in {b \in DOMAIN map : map[b] # Null} |-> map[a]]

\* SET n += map: the map's properties are added or overwritten, a null value
\* removes the property, the others stay
SetPlus(props, map) ==
    LET removed == {a \in DOMAIN map : map[a] = Null}
        names == (DOMAIN props \cup DOMAIN map) \ removed
    IN  [a \in names |-> IF a \in DOMAIN map THEN map[a] ELSE props[a]]

\* MergeNode as it would be with CREATE in place of MERGE
CreateNode(ns, key, node) == Append(ns, SetPlus((key :> node[key]), node))

\* MERGE (n:label {key: node.key}) SET n += node, on the nodes ns of the label
MergeNode(ns, key, node) ==
    LET matched == {i \in DOMAIN ns : key \in DOMAIN ns[i] /\ ns[i][key] = node[key]}
    IN  IF matched = {}
        THEN Append(ns, SetPlus((key :> node[key]), node))
        ELSE [i \in DOMAIN ns |-> IF i \in matched THEN SetPlus(ns[i], node) ELSE ns[i]]

\* UNWIND $nodes AS node MERGE ... : the entities are merged one after the other
RECURSIVE MergeAll(_, _, _)
MergeAll(ns, key, list) ==
    IF list = <<>> THEN ns
    ELSE MergeAll(MergeNode(ns, key, Head(list)), key, Tail(list))

\* MERGE refuses a null key: the query fails and its transaction is rolled back
Mergeable(list, key) ==
    \A i \in DOMAIN list : key \in DOMAIN list[i] /\ list[i][key] # Null

\* the store after batch_create_nodes(tx, label, list, unique_key)
batch_create_nodes(store, label, list, unique_key) ==
    IF Mergeable(list, unique_key)
    THEN [store EXCEPT ![label] = MergeAll(@, unique_key, list)]
    ELSE store

\* for i in range(0, total, batch_size): batch_create_nodes(data[i:i+batch_size])
RECURSIVE CreateInBatches(_, _, _, _)
CreateInBatches(store, label, data, size) ==
    IF data = <<>> THEN store
    ELSE CreateInBatches(
            batch_create_nodes(store, label, SubSeq(data, 1, Min(size, Len(data))),
                               KeyOf[label]),
            label, SubSeq(data, Min(size, Len(data)) + 1, Len(data)), size)

\* MergeEdges as it would be with CREATE in place of MERGE
CreateEdges(es, new) == es (+) SetToBag(new)

\* MERGE (a)-[:TYPE]->(b) for every edge of new: only the missing ones are made
MergeEdges(es, new) == es (+) SetToBag({e \in new : ~BagIn(e, es)})

\* summary.counters.relationships_created
RelationshipsCreated(es, new) == Cardinality({e \in new : ~BagIn(e, es)})

\* Region -> Province of sync_location: MATCH (r:Region)
\* MATCH (p:Province {region_code: r.code}) MERGE (r)-[:HAS_PROVINCE]->(p)
HasProvince ==
    [type |-> "HAS_PROVINCE", parent |-> "Region", child |-> "Province",
     pattr |-> "code", cattrs |-> <<"region_code">>]

\* Province -> City of sync_location: MATCH (p:Province) MATCH (c:CityMunicipality)
\* WHERE c.region_code + c.province_code = p.psgc_code MERGE (p)-[:HAS_CITY]->(c)
HasCity ==
    [type |-> "HAS_CITY", parent |-> "Province", child |-> "CityMunicipality",
     pattr |-> "psgc_code", cattrs |-> <<"region_code", "province_code">>]

\* City -> Barangay of sync_location, the paged derivation:
\* WHERE c.psgc_code = b.region_code + b.province_code + b.city_code
HasBarangay ==
    [type |-> "HAS_BARANGAY", parent |-> "CityMunicipality", child |-> "Barangay",
     pattr |-> "psgc_code", cattrs |-> <<"region_code", "province_code", "city_code">>]

\* ExpenseGroup -> Object of sync_object_code, and its fallback with the
\* label ExpenseObject: MATCH (eg:ExpenseGroup) MATCH (o:<label> {group_code:
\* eg.code, sub_class_code: eg.sub_class_code, classification_code:
\* eg.classification_code}) MERGE (eg)-[:HAS_OBJECT]->(o)
HasObject(label) ==
    [type |-> "HAS_OBJECT", parent |-> "ExpenseGroup", child |-> label,
     on |-> << <<"group_code", "code">>, <<"sub_class_code", "sub_class_code">>,
               <<"classification_code", "classification_code">> >>]

\* Object -> SubObject of sync_object_code, and its fallback with the label
\* ExpenseObject: MATCH (o:<label>) MATCH (so:SubObject {object_code: o.code,
\* group_code: o.group_code, ...}) MERGE (o)-[:HAS_SUB_OBJECT]->(so)
HasSubObject(label) ==
    [type |-> "HAS_SUB_OBJECT", parent |-> label, child |-> "SubObject",
     on |-> << <<"object_code", "code">>, <<"group_code", "group_code">>,
               <<"sub_class_code", "sub_class_code">>,
               <<"classification_code", "classification_code">> >>]

\* the edges a query asks for that matches the child on properties of the
\* parent: a property that is missing matches nothing
MatchedEdges(store, rel) ==
    {<<rel.type, <<rel.parent, x[1]>>, <<rel.child, x[2]>>>> :
        x \in {y \in (DOMAIN store[rel.parent]) \X (DOMAIN store[rel.child]) :
            \A k \in DOMAIN rel.on :
                /\ rel.on[k][1] \in DOMAIN store[rel.child][y[2]]
                /\ rel.on[k][2] \in DOMAIN store[rel.parent][y[1]]
                /\ store[rel.child][y[2]][rel.on[k][1]] =
                      store[rel.parent][y[1]][rel.on[k][2]]}}

\* a + b + ... of the named properties; null when one of them is missing
RECURSIVE Concat(_, _)
Concat(props, attrs) ==
    IF attrs = <<>> THEN ""
    ELSE IF Head(attrs) \notin DOMAIN props THEN Null
    ELSE LET rest == Concat(props, Tail(attrs))
         IN  IF rest = Null THEN Null ELSE props[Head(attrs)] \o rest

\* the (parent, child) positions a relationship query joins
Joined(store, rel) ==
    {x \in (DOMAIN store[rel.parent]) \X (DOMAIN store[rel.child]) :
        /\ rel.pattr \in DOMAIN store[rel.parent][x[1]]
        /\ Concat(store[rel.child][x[2]], rel.cattrs) # Null
        /\ Concat(store[rel.child][x[2]], rel.cattrs) = store[rel.parent][x[1]][rel.pattr]}

\* the edge of a relationship between the nodes at two positions
EdgeOf(rel, x) == <<rel.type, <<rel.parent, x[1]>>, <<rel.child, x[2]>>>>

\* the edges a simple relationship query asks for
SimpleEdges(store, rel) == {EdgeOf(rel, x) : x \in Joined(store, rel)}

\* the rows MATCH (c:CityMunicipality) MATCH (b:Barangay) WHERE ... produces,
\* in the order of the cities and, for a city, of the barangays
JoinedRows(store, rel) ==
    LET n == Len(store[rel.child])
        all == [k \in 1..(Len(store[rel.parent]) * n) |->
                   <<((k - 1) \div n) + 1, ((k - 1) % n) + 1>>]
    IN  SelectSeq(all, LAMBDA x : x \in Joined(store, rel))

\* WITH c, b SKIP $offset LIMIT $batch
WindowOf(rows, offset, size) ==
    SubSeq(rows, offset + 1, Min(offset + size, Len(rows)))

\* the four paged derivations of sync_budget_records, in the order they run
BudgetRels ==
    << [type |-> "FUNDED_BY", field |-> "funding_uacs_code",
        target |-> "FundingSource", tkey |-> "uacs_code", excluded |-> {}],
       [type |-> "ALLOCATED_TO", field |-> "org_uacs_code",
        target |-> "Organization", tkey |-> "uacs_code", excluded |-> {}],
       [type |-> "LOCATED_IN_REGION", field |-> "region_code",
        target |-> "Region", tkey |-> "code", excluded |-> {"00"}],
       [type |-> "CLASSIFIED_AS", field |-> "object_uacs_code",
        target |-> "SubObject", tkey |-> "uacs_code", excluded |-> {}] >>

\* MATCH (br:BudgetRecord {fiscal_year: $year, budget_type: $type})
\* WHERE br.<field> IS NOT NULL [AND br.region_code <> '00']
Selected(props, year, type, rel) ==
    /\ "fiscal_year" \in DOMAIN props
    /\ props["fiscal_year"] = year
    /\ "budget_type" \in DOMAIN props
    /\ props["budget_type"] = type
    /\ rel.field \in DOMAIN props
    /\ props[rel.field] \notin rel.excluded

\* the positions of the selected budget records, in store order
Candidates(store, year, type, rel) ==
    SelectSeq([i \in DOMAIN store["BudgetRecord"] |-> i],
              LAMBDA i : Selected(store["BudgetRecord"][i], year, type, rel))

\* WITH br SKIP $offset LIMIT $batch
Window(cands, offset) ==
    SubSeq(cands, offset + 1, Min(offset + rel_batch, Len(cands)))

\* MATCH (t:Target {key: br.<field>}) MERGE (br)-[:TYPE]->(t): one row, and one
\* edge asked for, per record of the window and target node it matches
PageEdges(store, window, rel) ==
    {<<rel.type, <<"BudgetRecord", x[1]>>, <<rel.target, x[2]>>>> :
        x \in {y \in SeqToSet(window) \X (DOMAIN store[rel.target]) :
            /\ rel.tkey \in DOMAIN store[rel.target][y[2]]
            /\ store[rel.target][y[2]][rel.tkey] =
                  store["BudgetRecord"][y[1]][rel.field]}}

(***************************************************************************)
(* The files under data/ the loader reads.  A missing file, and a type     *)
(* without batch files, is the empty list.                                 *)
(***************************************************************************)
\* versions of data/location/regions.json: the same region with another
\* description, and listed twice
RegionFiles ==
    { << [code |-> "01", description |-> "Region I"] >>,
      << [code |-> "01", description |-> "Ilocos Region"] >>,
      << [code |-> "01", description |-> "Region I"],
         [code |-> "01", description |-> "Ilocos Region"] >> }

ProvinceFile ==
    << [psgc_code |-> "0128", region_code |-> "01", description |-> "Ilocos Norte"] >>

FundingSourceFile ==
    << [uacs_code |-> "01101101", description |-> "Specific Budgets"] >>

OrganizationFile ==
    << [uacs_code |-> "070010000001", description |-> "Central Office"] >>

ExpenseGroupFile ==
    << [full_code |-> "50101", code |-> "01", sub_class_code |-> "01",
        classification_code |-> "5", description |-> "Salaries and Wages"] >>

ObjectFile ==
    << [full_code |-> "5010101", code |-> "01", group_code |-> "01",
        sub_class_code |-> "01", classification_code |-> "5",
        description |-> "Salaries and Wages - Regular"] >>

SubObjectFile ==
    << [uacs_code |-> "5010101001", code |-> "001", object_code |-> "01",
        group_code |-> "01", sub_class_code |-> "01", classification_code |-> "5",
        description |-> "Basic Salary"] >>

CityFile ==
    << [psgc_code |-> "012801", region_code |-> "01", province_code |-> "28",
        code |-> "01", description |-> "Adams"] >>

\* barangay number i of barangays.json: the second one lies in a city that
\* cities_municipalities.json does not have
Barangay(i) ==
    LET city == IF i = 2 THEN "02" ELSE "01"
    IN  [psgc_code |-> "0128" \o city \o "00" \o ToString(i),
         region_code |-> "01", province_code |-> "28", city_code |-> city,
         code |-> "00" \o ToString(i), date_deactivated |-> Null]

BarangayFile == [i \in 1..MaxBarangays |-> Barangay(i)]

\* a budget record carries the four codes of the reference files, four codes
\* no reference file has, or no code at all
Profiles == {"match", "nomatch", "absent"}

FiscalYear == "2025"
BudgetTypes == <<"NEP", "GAA">>

\* the code fields of a budget record, by profile: an absent code is omitted
CodeFields(profile) ==
    CASE profile = "match" ->
           [funding_uacs_code |-> "01101101", org_uacs_code |-> "070010000001",
            region_code |-> "01", object_uacs_code |-> "5010101001"]
      [] profile = "nomatch" ->
           [funding_uacs_code |-> "09909909", org_uacs_code |-> "990990000099",
            region_code |-> "99", object_uacs_code |-> "5990909099"]
      [] OTHER -> << >>

\* record number i of the batch files <type>_<year>_batch_*.json
BudgetRecord(type, year, i, profile) ==
    [id |-> <<type, year, i>>, fiscal_year |-> year, budget_type |-> type]
        @@ CodeFields(profile)

BudgetData(type, year, profiles) ==
    [i \in DOMAIN profiles |-> BudgetRecord(type, year, i, profiles[i])]

\* the contents the batch files of one type can have: NEP any list of at most
\* MaxRecords records, GAA a single record or none
BatchFiles(type) ==
    IF type = "NEP"
    THEN {BudgetData(type, FiscalYear, ps) :
             ps \in UNION {[1..n -> Profiles] : n \in 0..MaxRecords}}
    ELSE {<<>>, BudgetData(type, FiscalYear, <<"match">>)}

FileNames == {"Region", "Province", "CityMunicipality", "Barangay",
              "FundingSource", "Organization", "ExpenseGroup", "Object",
              "SubObject", "NEP", "GAA"}

\* the contents a run of the loader can find in one file
FileVersions(name) ==
    CASE name = "Region" -> RegionFiles \cup {<<>>}
      [] name = "Province" -> {ProvinceFile}
      [] name = "CityMunicipality" -> {CityFile}
      [] name = "Barangay" -> {BarangayFile}
      [] name = "FundingSource" -> {FundingSourceFile}
      [] name = "Organization" -> {OrganizationFile}
      [] name = "ExpenseGroup" -> {ExpenseGroupFile}
      [] name = "Object" -> {ObjectFile}
      [] name = "ExpenseObject" -> {<<>>}
      [] name = "SubObject" -> {SubObjectFile}
      [] OTHER -> BatchFiles(name)

\* the directory contents a run of the loader can find
Directories ==
    [Region : FileVersions("Region"),
     Province : FileVersions("Province"),
     CityMunicipality : FileVersions("CityMunicipality"),
     Barangay : FileVersions("Barangay"),
     FundingSource : FileVersions("FundingSource"),
     Organization : FileVersions("Organization"),
     ExpenseGroup : FileVersions("ExpenseGroup"),
     Object : FileVersions("Object"),
     SubObject : FileVersions("SubObject"),
     NEP : FileVersions("NEP"),
     GAA : FileVersions("GAA")]


(***************************************************************************)
(* The loader: sync_all and the steps it runs, in its order                *)
(***************************************************************************)
NoSync == [year |-> "", type |-> "", rel |-> 0, offset |-> 0, total_count |-> 0]

NoLoc == [offset |-> 0, total_created |-> 0]

SyncIdle ==
    /\ nodes = EmptyStore
    /\ edges = EmptyBag
    /\ spc = "idle"
    /\ loc = NoLoc
    /\ sync = NoSync
    /\ trace = <<>>

SyncInit == SyncIdle /\ files \in Directories

\* a statement sent to the backend by a step of sync_all: a constraint, the
\* upsert of a list of entities of a label, or a relationship derivation; dim
\* is the step, for sync_budget_records the budget type it is called with
Statement(dim, kind, of) == [dim |-> dim, kind |-> kind, of |-> of]

\* the labels create_constraints names, in its order
ConstraintLabels ==
    <<"FundCluster", "FinancingSource", "Authorization", "FundCategory",
      "FundingSource", "Department", "Agency", "OperatingUnitClass",
      "OperatingUnit", "Organization", "Region", "Province", "CityMunicipality",
      "Barangay", "Classification", "SubClass", "ExpenseGroup", "Object",
      "SubObject", "BudgetRecord">>

\* create_constraints as it would be if it sent nothing
create_constraints_skipped == <<>>

\* the statements of create_constraints: one CREATE CONSTRAINT IF NOT EXISTS
\* per label
create_constraints ==
    [i \in DOMAIN ConstraintLabels |->
        Statement("constraints", "constraint", ConstraintLabels[i])]

\* if data: execute_write(batch_create_nodes, label, ...) as a statement; the
\* file of a label the store does not keep is taken to be there
IfData(dim, label) ==
    IF label \in FileNames /\ files[label] = <<>> THEN <<>>
    ELSE <<Statement(dim, "upsert", label)>>

\* the upserts of a list size entities at a time, as statements
InBatches(dim, label, data, size) ==
    [k \in 1..((Len(data) + size - 1) \div size) |-> Statement(dim, "upsert", label)]

\* create_relationships_simple for each description, as statements
Derivations(dim, descriptions) ==
    [i \in DOMAIN descriptions |-> Statement(dim, "derive", descriptions[i])]

\* data = load_json_file(path); if data: execute_write(batch_create_nodes, ...)
LoadFile(store, label) ==
    IF files[label] = <<>> THEN store
    ELSE batch_create_nodes(store, label, files[label], KeyOf[label])

\* the edges after create_relationships_simple(session, query, description):
\* the query's edges are merged, or the backend raises and nothing is written
create_relationships_simple(store, es, rel, raises) ==
    IF raises THEN es ELSE MergeEdges(es, SimpleEdges(store, rel))

\* sync_all up to its first step: create_constraints
sync_all ==
    /\ spc = "idle"
    /\ spc' = "funding_source"
    /\ sync' = NoSync
    /\ trace' = create_constraints
    /\ UNCHANGED <<nodes, edges, files, loc>>

sync_funding_source ==
    /\ spc = "funding_source"
    /\ nodes' = LoadFile(nodes, "FundingSource")
    /\ trace' = trace \o IfData(spc, "FundCluster") \o IfData(spc, "FinancingSource")
                    \o IfData(spc, "Authorization") \o IfData(spc, "FundCategory")
                    \o IfData(spc, "FundingSource")
                    \o Derivations(spc, <<"FundCluster -> FinancingSource",
                                          "FinancingSource -> Authorization",
                                          "Authorization -> FundCategory",
                                          "FundCategory -> FundingSource">>)
    /\ spc' = "organization"
    /\ UNCHANGED <<edges, sync, files, loc>>

sync_organization ==
    /\ spc = "organization"
    /\ nodes' = LoadFile(nodes, "Organization")
    /\ trace' = trace \o IfData(spc, "Department") \o IfData(spc, "Agency")
                    \o IfData(spc, "OperatingUnitClass") \o IfData(spc, "OperatingUnit")
                    \o IfData(spc, "Organization")
                    \o Derivations(spc, <<"Department -> Agency",
                                          "Agency -> OperatingUnitClass",
                                          "OperatingUnitClass -> OperatingUnit">>)
    /\ spc' = "location"
    /\ UNCHANGED <<edges, sync, files, loc>>

\* sync_location up to its paging loop: the four upserts, the barangays
\* barangay_batch at a time, and the two simple derivations
sync_location ==
    /\ spc = "location"
    /\ nodes' = CreateInBatches(
                    LoadFile(LoadFile(LoadFile(nodes, "Region"), "Province"),
                             "CityMunicipality"),
                    "Barangay", files["Barangay"], barangay_batch)
    /\ \E raises1, raises2 \in BOOLEAN :
          edges' = create_relationships_simple(nodes',
                      create_relationships_simple(nodes', edges, HasProvince, raises1),
                      HasCity, raises2)
    /\ trace' = trace \o IfData(spc, "Region") \o IfData(spc, "Province")
                    \o IfData(spc, "CityMunicipality")
                    \o InBatches(spc, "Barangay", files["Barangay"], barangay_batch)
                    \o Derivations(spc, <<"Region -> Province", "Province -> City">>)
    /\ loc' = NoLoc
    /\ spc' = "barangay_paging"
    /\ UNCHANGED <<sync, files>>

\* the loop variables of the barangay paging loop after a page that
\* returned created
AfterLocationPage(lc, created) ==
    IF created = 0 THEN NoLoc
    ELSE [offset |-> lc.offset + city_rel_batch,
          total_created |-> lc.total_created + created]

\* one iteration of the while True loop of sync_location
LocationPage ==
    /\ spc = "barangay_paging"
    /\ LET window == WindowOf(JoinedRows(nodes, HasBarangay), loc.offset,
                              city_rel_batch)
           created == Len(window)
       IN  /\ edges' = MergeEdges(edges, {EdgeOf(HasBarangay, x) : x \in SeqToSet(window)})
           /\ loc' = AfterLocationPage(loc, created)
           /\ spc' = IF created = 0 THEN "pap" ELSE "barangay_paging"
    /\ trace' = Append(trace, Statement("location", "derive", "City -> Barangay"))
    /\ UNCHANGED <<nodes, sync, files>>

\* sync_pap: the two reference lists are upserted; no relationship is derived
sync_pap ==
    /\ spc = "pap"
    /\ trace' = trace \o IfData(spc, "SectorOutcome") \o IfData(spc, "HorizontalProgram")
    /\ spc' = "object_code"
    /\ UNCHANGED <<nodes, edges, sync, files, loc>>

\* Fallback as it would be if the second derivation always ran
FallbackAlways(count) == TRUE

\* if count1 == 0: / if count2 == 0: of sync_object_code
Fallback(count) == count = 0

\* sync_object_code, the backend raising in the derivation over Object nodes
\* to ExpenseGroup (raises1) or to SubObject (raises2) or in neither:
\* create_relationships_simple returns 0 for a derivation that raised
SyncObjectCode(raises1, raises2) ==
    /\ spc = "object_code"
    /\ nodes' = LoadFile(LoadFile(LoadFile(nodes, "ExpenseGroup"), "Object"), "SubObject")
    /\ LET asked1 == MatchedEdges(nodes', HasObject("Object"))
           count1 == IF raises1 THEN 0 ELSE RelationshipsCreated(edges, asked1)
           es1 == IF raises1 THEN edges ELSE MergeEdges(edges, asked1)
           es2 == IF Fallback(count1)
                  THEN MergeEdges(es1, MatchedEdges(nodes', HasObject("ExpenseObject")))
                  ELSE es1
           asked2 == MatchedEdges(nodes', HasSubObject("Object"))
           count2 == IF raises2 THEN 0 ELSE RelationshipsCreated(es2, asked2)
           es3 == IF raises2 THEN es2 ELSE MergeEdges(es2, asked2)
           es4 == IF Fallback(count2)
                  THEN MergeEdges(es3, MatchedEdges(nodes', HasSubObject("ExpenseObject")))
                  ELSE es3
       IN  /\ edges' = es4
           /\ trace' = trace \o IfData(spc, "Classification") \o IfData(spc, "SubClass")
                    \o IfData(spc, "ExpenseGroup") \o IfData(spc, "Object")
                    \o IfData(spc, "SubObject")
                    \o Derivations(spc, <<"Classification -> SubClass",
                                          "SubClass -> ExpenseGroup",
                                          "ExpenseGroup -> Object">>)
                    \o (IF Fallback(count1)
                        THEN Derivations(spc, <<"ExpenseGroup -> ExpenseObject">>)
                        ELSE <<>>)
                    \o Derivations(spc, <<"Object -> SubObject">>)
                    \o (IF Fallback(count2)
                        THEN Derivations(spc, <<"ExpenseObject -> SubObject">>)
                        ELSE <<>>)
    /\ spc' = BudgetTypes[1]
    /\ UNCHANGED <<sync, files, loc>>

\* sync_object_code with a backend that answers every derivation
sync_object_code == SyncObjectCode(FALSE, FALSE)

\* sync_object_code with a backend that raises in a derivation over Object nodes
ObjectDerivationRaises ==
    \E raises1, raises2 \in BOOLEAN :
        (raises1 \/ raises2) /\ SyncObjectCode(raises1, raises2)

\* what sync_all goes on to when it is done with a budget type
AfterType(type) == IF type = BudgetTypes[1] THEN BudgetTypes[2] ELSE "idle"

\* if nep_files: ... / if gaa_files: ... with no batch file of the type
NoBatchFiles ==
    /\ spc \in SeqToSet(BudgetTypes)
    /\ files[spc] = <<>>
    /\ spc' = AfterType(spc)
    /\ UNCHANGED <<nodes, edges, sync, files, loc, trace>>

\* sync_budget_records(fiscal_year, budget_type) up to its first paging loop:
\* the records of the batch files are upserted node_batch at a time
sync_budget_records ==
    /\ spc \in SeqToSet(BudgetTypes)
    /\ files[spc] # <<>>
    /\ nodes' = CreateInBatches(nodes, "BudgetRecord", files[spc], node_batch)
    /\ sync' = [year |-> FiscalYear, type |-> spc, rel |-> 1, offset |-> 0,
                total_count |-> 0]
    /\ trace' = trace \o InBatches(spc, "BudgetRecord", files[spc], node_batch)
    /\ spc' = "paging"
    /\ UNCHANGED <<edges, files, loc>>

\* AfterPage as it would be with the offset moved on by the count returned
AfterPageByCount(sy, count) ==
    IF count = 0
    THEN [sy EXCEPT !.rel = @ + 1, !.offset = 0, !.total_count = 0]
    ELSE [sy EXCEPT !.offset = @ + count, !.total_count = @ + count]

\* the loop variables after a page that returned count: the loop goes on to
\* the next window, or ends and hands over to the next derivation
AfterPage(sy, count) ==
    IF count = 0
    THEN [sy EXCEPT !.rel = @ + 1, !.offset = 0, !.total_count = 0]
    ELSE [sy EXCEPT !.offset = @ + rel_batch, !.total_count = @ + count]

\* one iteration of the running while True loop of sync_budget_records
BudgetPage ==
    /\ spc = "paging"
    /\ LET rel == BudgetRels[sync.rel]
           window == Window(Candidates(nodes, sync.year, sync.type, rel), sync.offset)
           asked == PageEdges(nodes, window, rel)
           count == Cardinality(asked)
       IN  /\ edges' = MergeEdges(edges, asked)
           /\ sync' = AfterPage(sync, count)
           /\ spc' = IF count = 0 /\ sync.rel = Len(BudgetRels)
                     THEN AfterType(sync.type) ELSE "paging"
           /\ trace' = Append(trace, Statement(sync.type, "derive", rel.type))
    /\ UNCHANGED <<nodes, files, loc>>

\* the edges after the barangay paging loop of sync_location has run from
\* the given offset to its end
RECURSIVE LocationPaging(_, _, _)
LocationPaging(store, es, offset) ==
    LET window == WindowOf(JoinedRows(store, HasBarangay), offset, city_rel_batch)
    IN  IF Len(window) = 0 THEN es
        ELSE LocationPaging(store,
                MergeEdges(es, {EdgeOf(HasBarangay, x) : x \in SeqToSet(window)}),
                offset + city_rel_batch)

\* the edges after paging loop number r of sync_budget_records(year, type)
\* has run from the given offset to its end
RECURSIVE BudgetPaging(_, _, _, _, _, _)
BudgetPaging(store, es, year, type, r, offset) ==
    LET rel == BudgetRels[r]
        asked == PageEdges(store, Window(Candidates(store, year, type, rel), offset), rel)
    IN  IF Cardinality(asked) = 0 THEN es
        ELSE BudgetPaging(store, MergeEdges(es, asked), year, type, r,
                          offset + rel_batch)

\* data[i:i+size] for i in range(0, len(data), size)
Batches(data, size) ==
    [k \in 1..((Len(data) + size - 1) \div size) |->
        SubSeq(data, (k - 1) * size + 1, Min(k * size, Len(data)))]

\* the upsert of a reference file, if the file is there
FileUpsert(label) ==
    IF files[label] = <<>> THEN <<>> ELSE <<[label |-> label, list |-> files[label]]>>

\* the upserts of a list in batches
BatchUpserts(label, data, size) ==
    [k \in DOMAIN Batches(data, size) |-> [label |-> label, list |-> Batches(data, size)[k]]]

\* the execute_write calls of a step of sync_all, in the order it makes them
Upserts(step) ==
    CASE step = "funding_source" -> FileUpsert("FundingSource")
      [] step = "organization" -> FileUpsert("Organization")
      [] step = "location" ->
            FileUpsert("Region") \o FileUpsert("Province")
               \o FileUpsert("CityMunicipality")
               \o BatchUpserts("Barangay", files["Barangay"], barangay_batch)
      [] step = "object_code" ->
            FileUpsert("ExpenseGroup") \o FileUpsert("Object") \o FileUpsert("SubObject")
      [] step \in SeqToSet(BudgetTypes) ->
            BatchUpserts("BudgetRecord", files[step], node_batch)
      [] OTHER -> <<>>

RECURSIVE ApplyUpserts(_, _)
ApplyUpserts(store, ups) ==
    IF ups = <<>> THEN store
    ELSE ApplyUpserts(
            batch_create_nodes(store, Head(ups).label, Head(ups).list,
                               KeyOf[Head(ups).label]),
            Tail(ups))

\* an execute_write of the running step raises a backend error: the upserts
\* before it are committed, the exception leaves the step and is caught by
\* the except clause of sync_all, which prints it and returns
UpsertRaises ==
    /\ spc # "idle"
    /\ \E k \in DOMAIN Upserts(spc) :
          nodes' = ApplyUpserts(nodes, SubSeq(Upserts(spc), 1, k - 1))
    /\ trace' = <<>>
    /\ spc' = "idle"
    /\ UNCHANGED <<edges, sync, files, loc>>

\* the session.run of a paging loop raises a backend error: the exception
\* leaves the loop and is caught by the except clause of sync_all
PageRaises ==
    /\ spc \in {"barangay_paging", "paging"}
    /\ spc' = "idle"
    /\ loc' = NoLoc
    /\ trace' = <<>>
    /\ UNCHANGED <<nodes, edges, sync, files>>

\* convert_all saves a new regions.json between two runs of the loader
save_regions ==
    /\ spc = "idle"
    /\ nodes # EmptyStore
    /\ \E data \in RegionFiles : files' = [files EXCEPT !.Region = data]
    /\ files' # files
    /\ UNCHANGED <<nodes, edges, spc, sync, loc, trace>>

\* the budget converter writes the batch files of a type anew between two
\* runs of the loader: the records keep their ids and come with other code
\* fields, or with none
save_batches ==
    /\ spc = "idle"
    /\ nodes # EmptyStore
    /\ \E type \in SeqToSet(BudgetTypes) :
          \E profiles \in [DOMAIN files[type] -> Profiles] :
              files' = [files EXCEPT ![type] = BudgetData(type, FiscalYear, profiles)]
    /\ files' # files
    /\ UNCHANGED <<nodes, edges, spc, sync, loc, trace>>

(***************************************************************************)
(* The validator: validate_all runs its checks in order against the store. *)
(* The rows of a result are kept as a set, and the formatting of the       *)
(* numbers print_result writes is left out.                                *)
(***************************************************************************)
\* the number of edges of one type in a bag of edges
EdgeCount(es, type) ==
    LET of == {e \in BagToSet(es) : e[1] = type}
    IN  IF of = {} THEN 0 ELSE BagCardinality([e \in of |-> CopiesIn(e, es)])

NoResult == [status |-> "none"]

ValIdle ==
    /\ vstatus = "idle"
    /\ check = 0
    /\ vresult = NoResult
    /\ printed = <<>>

\* the checks of validate_all, in the order it runs them: the description
\* (its arrows written ->), the shape of the query and what it ranges over
Checks ==
    << [description |-> "All relationship types", query |-> "types", of |-> <<>>],
       [description |-> "Complete funding chain", query |-> "chain",
        of |-> <<"HAS_FINANCING_SOURCE", "HAS_AUTHORIZATION", "HAS_FUND_CATEGORY",
                 "HAS_FUNDING_SOURCE">>],
       [description |-> "FundCluster -> FinancingSource", query |-> "edges",
        of |-> <<"HAS_FINANCING_SOURCE">>],
       [description |-> "FinancingSource -> Authorization", query |-> "edges",
        of |-> <<"HAS_AUTHORIZATION">>],
       [description |-> "Authorization -> FundCategory", query |-> "edges",
        of |-> <<"HAS_FUND_CATEGORY">>],
       [description |-> "FundCategory -> FundingSource", query |-> "edges",
        of |-> <<"HAS_FUNDING_SOURCE">>],
       [description |-> "Complete organization chain", query |-> "chain",
        of |-> <<"HAS_AGENCY", "HAS_OPERATING_UNIT_CLASS", "HAS_OPERATING_UNIT">>],
       [description |-> "Department -> Agency", query |-> "edges",
        of |-> <<"HAS_AGENCY">>],
       [description |-> "Agency -> OperatingUnitClass", query |-> "edges",
        of |-> <<"HAS_OPERATING_UNIT_CLASS">>],
       [description |-> "OperatingUnitClass -> OperatingUnit", query |-> "edges",
        of |-> <<"HAS_OPERATING_UNIT">>],
       [description |-> "Complete expense chain", query |-> "chain",
        of |-> <<"HAS_SUB_CLASS", "HAS_GROUP", "HAS_OBJECT", "HAS_SUB_OBJECT">>],
       [description |-> "Classification -> SubClass", query |-> "edges",
        of |-> <<"HAS_SUB_CLASS">>],
       [description |-> "SubClass -> ExpenseGroup", query |-> "edges",
        of |-> <<"HAS_GROUP">>],
       [description |-> "ExpenseGroup -> Object/ExpenseObject", query |-> "edges",
        of |-> <<"HAS_OBJECT">>],
       [description |-> "Object/ExpenseObject -> SubObject", query |-> "edges",
        of |-> <<"HAS_SUB_OBJECT">>],
       [description |-> "Region -> Province", query |-> "edges",
        of |-> <<"HAS_PROVINCE">>],
       [description |-> "Province -> City", query |-> "edges", of |-> <<"HAS_CITY">>],
       [description |-> "City -> Barangay", query |-> "edges",
        of |-> <<"HAS_BARANGAY">>],
       [description |-> "Total budget records", query |-> "nodes",
        of |-> <<"BudgetRecord">>],
       [description |-> "Budget -> Organization", query |-> "edges",
        of |-> <<"ALLOCATED_TO">>],
       [description |-> "Budget -> FundingSource", query |-> "edges",
        of |-> <<"FUNDED_BY">>],
       [description |-> "Budget -> Region", query |-> "edges",
        of |-> <<"LOCATED_IN_REGION">>],
       [description |-> "Budget -> SubObject", query |-> "edges",
        of |-> <<"CLASSIFIED_AS">>],
       [description |-> "Coverage percentages", query |-> "coverage", of |-> <<>>],
       [description |-> "Orphaned FundClusters", query |-> "without",
        of |-> <<"FundCluster", "HAS_FINANCING_SOURCE", "out">>],
       [description |-> "Agencies without OperatingUnitClass", query |-> "without",
        of |-> <<"Agency", "HAS_OPERATING_UNIT_CLASS", "out">>],
       [description |-> "Orphaned SubObjects", query |-> "without",
        of |-> <<"SubObject", "HAS_SUB_OBJECT", "in">>],
       [description |-> "Budgets without Organization", query |-> "without",
        of |-> <<"BudgetRecord", "ALLOCATED_TO", "out">>],
       [description |-> "Budgets without Funding", query |-> "without",
        of |-> <<"BudgetRecord", "FUNDED_BY", "out">>] >>

\* the position of the coverage check among the checks
CoverageCheck == CHOOSE i \in DOMAIN Checks : Checks[i].query = "coverage"

\* the greatest common divisor of two naturals
RECURSIVE GCD(_, _)
GCD(a, b) == IF b = 0 THEN a ELSE GCD(b, a % b)

\* a / b as a number: the fraction in lowest terms (the rounding of the
\* floating-point division is left out; Cypher's float division by zero
\* gives no error but a value that is not a number)
Quotient(a, b) ==
    IF b = 0 THEN <<"NaN">> ELSE <<a \div GCD(a, b), b \div GCD(a, b)>>

\* MATCH (br:BudgetRecord)-[:TYPE]->(): a row per such edge
BudgetEdgeRows(es, type) ==
    LET from == {e \in BagToSet(es) : e[1] = type /\ e[2][1] = "BudgetRecord"}
    IN  IF from = {} THEN 0
        ELSE BagCardinality([e \in from |-> CopiesIn(e, es)])

\* the rows of the coverage query: a MATCH without a match leaves no row, an
\* aggregation with grouping keys over no row returns no row, and so the
\* query returns its one row only if each of the three MATCHes finds an edge
CoverageRows(store, es) ==
    LET total == Len(store["BudgetRecord"])
        with_org == BudgetEdgeRows(es, "ALLOCATED_TO")
        with_fund == BudgetEdgeRows(es, "FUNDED_BY")
        with_class == BudgetEdgeRows(es, "CLASSIFIED_AS")
    IN  IF with_org = 0 \/ with_fund = 0 \/ with_class = 0 THEN {}
        ELSE {[total |-> total,
               with_org |-> with_org, org_pct |-> Quotient(with_org * 100, total),
               with_fund |-> with_fund, fund_pct |-> Quotient(with_fund * 100, total),
               with_class |-> with_class,
               class_pct |-> Quotient(with_class * 100, total)]}

\* MATCH path = (a)-[:T1]->(b)-[:T2]->(c)...: the paths along the edge types
RECURSIVE Paths(_, _)
Paths(es, types) ==
    LET first == {e \in BagToSet(es) : e[1] = Head(types)}
    IN  IF Len(types) = 1 THEN {<<e>> : e \in first}
        ELSE {<<x[1]>> \o x[2] :
                x \in {y \in first \X Paths(es, Tail(types)) : y[1][3] = y[2][1][2]}}

\* MATCH (n:Label) WHERE NOT (n)-[:TYPE]->() [or ()-[:TYPE]->(n)]
Without(store, es, label, type, dir) ==
    IF label \notin Labels THEN {}
    ELSE {i \in DOMAIN store[label] :
            ~\E e \in BagToSet(es) :
                /\ e[1] = type
                /\ <<label, i>> = (IF dir = "out" THEN e[2] ELSE e[3])}

\* the rows the query of a check returns on the store
QueryData(c, store, es) ==
    CASE c.query = "types" ->
            {[relationship_type |-> t, count |-> EdgeCount(es, t)] :
                t \in {e[1] : e \in BagToSet(es)}}
      [] c.query = "chain" ->
            \* LIMIT 5: the rows are told apart by their position only
            1..Min(5, Cardinality(Paths(es, c.of)))
      [] c.query = "edges" -> {[count |-> EdgeCount(es, c.of[1])]}
      [] c.query = "nodes" ->
            {[total_budgets |-> IF c.of[1] \in Labels THEN Len(store[c.of[1]]) ELSE 0]}
      [] c.query = "coverage" -> CoverageRows(store, es)
      [] OTHER ->
            {[count |-> Cardinality(Without(store, es, c.of[1], c.of[2], c.of[3]))]}

\* run_query(query, description): the rows, or the error of the backend
run_query(c, store, es, raises) ==
    IF raises
    THEN [status |-> "error", description |-> c.description, error |-> "error"]
    ELSE [status |-> "success", description |-> c.description,
          data |-> QueryData(c, store, es)]

\* what validate_all prints for a result: print_result writes the description
\* and the rows, the coverage check writes its row if there is one
Output(c, res) ==
    IF c.query = "coverage" /\ res.data = {} THEN <<>>
    ELSE <<[description |-> res.description, data |-> res.data]>>

\* validate_all is called on a store no run of sync_all is writing to
validate_all ==
    /\ vstatus = "idle"
    /\ spc = "idle"
    /\ vstatus' = "running"
    /\ UNCHANGED <<check, vresult, printed, syncVars>>

\* result = self.run_query(...) followed by the use of result["data"], which
\* raises KeyError on a result that has no such key: the exception leaves
\* validate_all and main
Check ==
    /\ vstatus = "running"
    /\ \E raises \in BOOLEAN :
          vresult' = run_query(Checks[check + 1], nodes, edges, raises)
    /\ IF "data" \in DOMAIN vresult'
       THEN /\ printed' = printed \o Output(Checks[check + 1], vresult')
            /\ check' = check + 1
            /\ vstatus' = IF check' = Len(Checks) THEN "complete" ELSE "running"
       ELSE /\ vstatus' = "raised"
            /\ UNCHANGED <<check, printed>>
    /\ UNCHANGED syncVars

(***************************************************************************)
(* Strings, as the converters handle them.  None is written Null.         *)
(***************************************************************************)
\* the characters from which the code fields of the inputs are drawn
Chars == {"0", "1", " "}

\* the longest string drawn for a component of a code
MaxLen == 2

\* the strings over Chars of length n or less
RECURSIVE Strings(_)
Strings(n) ==
    IF n = 0 THEN {""}
    ELSE Strings(n - 1) \cup {s \o c : s \in Strings(n - 1), c \in Chars}

Char(s, i) == SubSeq(s, i, i)

\* d[key] = value, on a dict or on the files of a directory
Put(d, key, value) ==
    [k \in DOMAIN d \cup {key} |-> IF k = key THEN value ELSE d[k]]

\* str.strip(): leading and trailing blanks removed
RECURSIVE strip(_)
strip(s) ==
    IF s = "" THEN s
    ELSE IF Char(s, 1) = " " THEN strip(SubSeq(s, 2, Len(s)))
    ELSE IF Char(s, Len(s)) = " " THEN strip(SubSeq(s, 1, Len(s) - 1))
    ELSE s

\* width characters "0"
RECURSIVE Zeros(_)
Zeros(width) == IF width = 0 THEN "" ELSE "0" \o Zeros(width - 1)

\* str.zfill(width) padding on the right instead of the left
zfillRight(s, width) == IF Len(s) >= width THEN s ELSE s \o Zeros(width - Len(s))

\* str.zfill(width), for strings without a sign
zfill(s, width) == IF Len(s) >= width THEN s ELSE Zeros(width - Len(s)) \o s

\* s contains sub
Contains(s, sub) ==
    \E i \in 1..(Len(s) - Len(sub) + 1) : SubSeq(s, i, i + Len(sub) - 1) = sub

Digits == {"0", "1", "2", "3", "4", "5", "6", "7", "8", "9"}

AllDigits(s) == \A i \in 1..Len(s) : Char(s, i) \in Digits

\* re.search(prefix + r'(\d{4})', s): the group of the leftmost match, or Null
Search4Digits(s, prefix) ==
    LET n == Len(prefix)
        at == {i \in 1..(Len(s) - n - 3) :
                  /\ SubSeq(s, i, i + n - 1) = prefix
                  /\ AllDigits(SubSeq(s, i + n, i + n + 3))}
    IN  IF at = {} THEN Null
        ELSE LET i == CHOOSE j \in at : \A k \in at : j <= k
             IN  SubSeq(s, i + n, i + n + 3)

\* the characters of the file names, in the order of their code points
CodePoints == ".0123456789ABCDEFGHIJKLMNOPQRSTUVWXYZ_abcdefghijklmnopqrstuvwxyz"

Ord(c) == CHOOSE i \in 1..Len(CodePoints) : Char(CodePoints, i) = c

\* str.upper()
RECURSIVE upper(_)
upper(s) ==
    IF s = "" THEN s
    ELSE LET c == Char(s, 1)
             u == IF Ord(c) > Ord("_") THEN Char(CodePoints, Ord(c) - 27) ELSE c
         IN  u \o upper(SubSeq(s, 2, Len(s)))

\* s < t
RECURSIVE Less(_, _)
Less(s, t) ==
    IF t = "" THEN FALSE
    ELSE IF s = "" THEN TRUE
    ELSE IF Char(s, 1) # Char(t, 1) THEN Ord(Char(s, 1)) < Ord(Char(t, 1))
    ELSE Less(SubSeq(s, 2, Len(s)), SubSeq(t, 2, Len(t)))

\* sorted(names)
RECURSIVE sorted(_)
sorted(names) ==
    IF names = {} THEN <<>>
    ELSE LET least == CHOOSE n \in names : \A m \in names \ {n} : Less(n, m)
         IN  <<least>> \o sorted(names \ {least})

\* the number a string of digits denotes
RECURSIVE ToNat(_)
ToNat(s) ==
    IF s = "" THEN 0
    ELSE ToNat(SubSeq(s, 1, Len(s) - 1)) * 10 + (Ord(Char(s, Len(s))) - Ord("0"))

\* s.replace(old, ""), old a single character
RECURSIVE Remove(_, _)
Remove(s, old) ==
    IF s = "" THEN s
    ELSE (IF Char(s, 1) = old THEN "" ELSE Char(s, 1)) \o Remove(SubSeq(s, 2, Len(s)), old)

\* a string without its trailing zeros
RECURSIVE NoTrailingZeros(_)
NoTrailingZeros(s) ==
    IF s # "" /\ Char(s, Len(s)) = "0" THEN NoTrailingZeros(SubSeq(s, 1, Len(s) - 1))
    ELSE s

(***************************************************************************)
(* The budget converter: the parsers of the code fields and convert_record *)
(***************************************************************************)
is_valid_value(value) == value # Null /\ strip(value) # ""

parse_organization_code(dept, agency, operunit) ==
    IF ~is_valid_value(dept) \/ ~is_valid_value(agency) \/ ~is_valid_value(operunit)
    THEN Null
    ELSE LET code == zfill(strip(dept), 2) \o zfill(strip(agency), 3)
                        \o zfill(strip(operunit), 7)
         IN  IF code = "000000000000" THEN Null ELSE code

parse_region_code(region) ==
    IF ~is_valid_value(region) THEN Null
    ELSE LET region_str == zfill(strip(region), 2)
         IN  IF region_str = "00" THEN Null ELSE region_str

\* the uacs_code values of fund_categories.json
FundCategories == <<"01101101", "02101101">>

\* load_fund_categories: lookup[uacs[2:8]] = uacs, a later category
\* overwriting an earlier one
RECURSIVE load_fund_categories(_)
load_fund_categories(categories) ==
    IF categories = <<>> THEN <<>>
    ELSE LET uacs == categories[Len(categories)]
             before == load_fund_categories(SubSeq(categories, 1, Len(categories) - 1))
         IN  IF Len(uacs) = 8 THEN Put(before, SubSeq(uacs, 3, 8), uacs)
             ELSE before

fund_category_lookup == load_fund_categories(FundCategories)

\* a parser that returns a dict or None: None is written as the empty dict,
\* which the callers (if funding_info:, if object_info:) treat alike
NoDict == <<>>

parse_funding_code(fundcd) ==
    IF ~is_valid_value(fundcd) THEN NoDict
    ELSE LET fundcd_str == strip(fundcd)
         IN  IF Len(fundcd_str) = 8
             THEN IF fundcd_str = "00000000" THEN NoDict
                  ELSE ("uacs_code" :> fundcd_str) @@ ("conversion_type" :> "native")
             ELSE IF Len(fundcd_str) = 6 /\ fundcd_str \in DOMAIN fund_category_lookup
             THEN ("uacs_code" :> fund_category_lookup[fundcd_str])
                     @@ ("conversion_type" :> "6-digit-lookup")
                     @@ ("original_code" :> fundcd_str)
             ELSE NoDict

\* a or b
Or(a, b) == IF a # Null /\ a # "" THEN a ELSE b

parse_object_code(record) ==
    LET obj_cd == Or(record["UACS_SOBJ_CD"], record["UACS_OBJ_CD"])
    IN  IF ~is_valid_value(obj_cd) THEN NoDict
        ELSE LET obj_str == zfill(strip(obj_cd), 10)
             IN  IF obj_str = "0000000000" THEN NoDict ELSE ("uacs_code" :> obj_str)

\* float(text) succeeds: digits with at most one point among them (signs,
\* exponents and the other spellings float accepts are not among the inputs)
IsFloat(text) ==
    LET s == strip(text)
        digits == Remove(s, ".")
    IN  /\ digits # ""
        /\ AllDigits(digits)
        /\ Len(s) - Len(digits) <= 1

\* the float a text denotes: its whole part and its fractional digits
Float(text) ==
    LET s == strip(text)
        point == IF Contains(s, ".")
                 THEN CHOOSE i \in 1..Len(s) : Char(s, i) = "."
                 ELSE Len(s) + 1
    IN  [whole |-> ToNat(SubSeq(s, 1, point - 1)),
         frac |-> NoTrailingZeros(SubSeq(s, point + 1, Len(s)))]

clean_amount(amount) ==
    IF amount = Null \/ amount = "" THEN [whole |-> 0, frac |-> ""]
    ELSE IF IsFloat(Remove(amount, ",")) THEN Float(Remove(amount, ","))
    ELSE [whole |-> 0, frac |-> ""]

\* safe_get(record, key, default): a missing key is a key with value None
safe_get(record, key, default) ==
    IF record[key] = Null THEN default ELSE strip(record[key])

\* the fields of a raw record the converter reads
RawFields == {"DEPARTMENT", "AGENCY", "OPERUNIT", "UACS_REG_ID", "FUNDCD",
              "UACS_SOBJ_CD", "UACS_OBJ_CD", "PREXC_FPAP_ID", "AMT", "DSC",
              "YEAR", "LVL"}

\* the field is set if the parser returned something
Field(name, value) == IF value = Null THEN <<>> ELSE (name :> value)

convert_record(record, budget_type, year, record_number) ==
    LET org_code == parse_organization_code(record["DEPARTMENT"], record["AGENCY"],
                                            record["OPERUNIT"])
        region_code == parse_region_code(record["UACS_REG_ID"])
        funding_info == parse_funding_code(record["FUNDCD"])
        object_info == parse_object_code(record)
        prexc_id == zfill(safe_get(record, "PREXC_FPAP_ID", "000000000000000"), 15)
        record_id == budget_type \o "-" \o year \o "-"
                        \o zfill(ToString(record_number), 10)
    IN  ("id" :> record_id) @@ ("budget_type" :> budget_type)
           @@ ("fiscal_year" :> year)
           @@ ("amount" :> clean_amount(record["AMT"]))
           @@ ("description" :> safe_get(record, "DSC", ""))
           @@ ("prexc_fpap_id" :> prexc_id)
           @@ Field("org_uacs_code", org_code)
           @@ Field("region_code", region_code)
           @@ (IF funding_info = NoDict THEN <<>>
               ELSE ("funding_uacs_code" :> funding_info["uacs_code"])
                       @@ ("funding_conversion_type" :> funding_info["conversion_type"]))
           @@ (IF object_info = NoDict THEN <<>>
               ELSE ("object_uacs_code" :> object_info["uacs_code"]))

\* convert_file's batch_size
convert_batch_size == 2

\* the longest input file
MaxFileRecords == 2

\* the record of the end-to-end example
BaseRecord ==
    [f \in RawFields |->
        CASE f = "AMT" -> "1,500.00"
          [] f = "DEPARTMENT" -> "7"
          [] f = "AGENCY" -> "1"
          [] f = "OPERUNIT" -> "1"
          [] f = "FUNDCD" -> "01101101"
          [] OTHER -> Null]

\* the values drawn for a component of a code
Components == {Null} \cup Strings(MaxLen) \cup {"27", "001", "00001", "7"}

\* the raw records handed to convert_record: the example with its
\* organization fields, or one other group of fields, replaced
RawRecords ==
    {[BaseRecord EXCEPT !["DEPARTMENT"] = d, !["AGENCY"] = a, !["OPERUNIT"] = o] :
        d \in Components, a \in Components, o \in Components}
    \cup {[BaseRecord EXCEPT !["UACS_REG_ID"] = r] : r \in Components \cup {"13", "000"}}
    \cup {[BaseRecord EXCEPT !["FUNDCD"] = c] :
            c \in {Null, "", "00000000", " 01101101 ", "101101", "000000", "999999",
                   "0110110"}}
    \cup {[BaseRecord EXCEPT !["UACS_SOBJ_CD"] = s, !["UACS_OBJ_CD"] = c] :
            s \in {Null, "", " ", "0", "5020101000", "0000000000", "00000000000"},
            c \in {Null, "0", "50201010"}}
    \cup {[BaseRecord EXCEPT !["PREXC_FPAP_ID"] = p, !["DSC"] = t] :
            p \in {Null, "", "0", "1", "310100000001000"}, t \in {Null, " Salaries "}}
    \cup {[BaseRecord EXCEPT !["AMT"] = m] :
            m \in {Null, "", "12.5", "n/a", " 7 ", "1.2.3", "5."}}

(***************************************************************************)
(* The location converter: parse_barangay_from_api.  The HTML of the code  *)
(* is given by the texts between its tags.                                 *)
(***************************************************************************)
\* HTMLCodeParser: handle_data appends data.strip(), get_psgc_code joins
RECURSIVE parse_html_code(_)
parse_html_code(texts) ==
    IF texts = <<>> THEN "" ELSE strip(Head(texts)) \o parse_html_code(Tail(texts))

\* record.get(key, default), a missing key being written Null
Get(record, key, default) == IF record[key] = Null THEN default ELSE record[key]

parse_barangay_from_api(record) ==
    LET html == parse_html_code(record.code)
        psgc_code == zfill(IF html = "" \/ Len(html) < 9 THEN "000000000" ELSE html, 9)
    IN  [code |-> Get(record, "subCode", SubSeq(psgc_code, 7, 9)),
         description |-> Get(record, "label",
                             "Barangay " \o Get(record, "subCode", "000")),
         region_code |-> SubSeq(psgc_code, 1, 2),
         province_code |-> SubSeq(psgc_code, 3, 4),
         city_code |-> SubSeq(psgc_code, 5, 6),
         psgc_code |-> psgc_code,
         region_name |-> Get(record, "parent1UacsLabel", ""),
         province_name |-> Get(record, "parent2UacsLabel", ""),
         city_municipality_name |-> Get(record, "parent3UacsLabel", ""),
         date_activated |-> record.dateActivated,
         date_deactivated |-> record.dateDeactivated,
         status |-> Get(record, "status", "Active")]

\* the records of the API handed to parse_barangay_from_api
ApiRecords ==
    [code : {<<"19", "99", "08", "002">>, <<" 19", "99 ", "08", "002">>,
             <<"19", "99", "08">>, <<>>, <<"00", "00", "00", "000">>,
             <<"1999080021">>},
     subCode : {Null, "002"},
     label : {Null, "Bualan"},
     parent1UacsLabel : {"Region"},
     parent2UacsLabel : {Null, "Province"},
     parent3UacsLabel : {"City"},
     dateActivated : {"Dec 20, 2022"},
     dateDeactivated : {Null},
     status : {Null, "Active"}]

(***************************************************************************)
(* The converters of the reference files: a row of a sheet, or a code, is  *)
(* cut into the codes of its levels                                        *)
(***************************************************************************)
\* the codes handed to a converter: the ends of a code of the full width,
\* and the short strings
CodesUpTo(code) ==
    {SubSeq(code, i, Len(code)) : i \in 1..(Len(code) + 1)} \cup Strings(MaxLen)

\* the body of the loop of OrganizationConverter.convert_operating_unit
convert_operating_unit(row) ==
    LET uacs == zfill(strip(row.UACS), 12)
        class_code == SubSeq(uacs, 6, 7)
        lower_ou_code == SubSeq(uacs, 8, 12)
        region_str == strip(row.Region)
        Word(i) == /\ 1 <= i /\ i <= Len(region_str)
                   /\ \E k \in 2..Len(CodePoints) :
                         Char(CodePoints, k) = Char(region_str, i)
        \* re.search(r'\b(\d{2})\b', region_str)
        at == {i \in 1..(Len(region_str) - 1) :
                  /\ AllDigits(SubSeq(region_str, i, i + 1))
                  /\ ~Word(i - 1)
                  /\ ~Word(i + 2)}
    IN  [code |-> class_code \o lower_ou_code,
         description |-> strip(row.Name),
         uacs_code |-> uacs,
         department_code |-> SubSeq(uacs, 1, 2),
         agency_code |-> SubSeq(uacs, 3, 5),
         class_code |-> class_code,
         lower_ou_code |-> lower_ou_code,
         region_code |-> IF row.Region = Null \/ at = {} THEN ""
                         ELSE LET i == CHOOSE j \in at : \A k \in at : j <= k
                              IN  SubSeq(region_str, i, i + 1),
         tag |-> strip(Get(row, "Tag", "")),
         status |-> strip(row.Status)]

\* the rows of the sheet of the operating units; a Region that is not there,
\* or is empty, is written Null
OperatingUnitRows ==
    [UACS : CodesUpTo("270012200001"), Name : {" Office of the Governor "},
     Region : {Null, "Region 13", "NCR"}, Tag : {Null, "IU"}, Status : {"Active"}]

\* the body of the loop of FundingSourceConverter.convert_fund_category
convert_fund_category(row) ==
    LET uacs_code == zfill(strip(row.UACS), 8)
    IN  [uacs_code |-> uacs_code,
         code |-> SubSeq(uacs_code, Len(uacs_code) - 2, Len(uacs_code)),
         description |-> strip(row["Fund Category"]),
         sub_category |-> strip(row["Fund Sub-Category"]),
         fund_cluster |-> strip(row["Fund Cluster"]),
         financing_source |-> strip(row["Financing Source"]),
         authorization |-> strip(row["Authorization"]),
         status |-> strip(row["Status"])]

\* the body of the loop of create_funding_source_composite
create_funding_source_composite(category) ==
    LET uacs == category.uacs_code
    IN  [uacs_code |-> uacs,
         description |-> category.fund_cluster \o " - " \o category.financing_source
                            \o " - " \o category.authorization \o " - "
                            \o category.description,
         fund_cluster_code |-> SubSeq(uacs, 1, 2),
         financing_source_code |-> SubSeq(uacs, 3, 3),
         authorization_code |-> SubSeq(uacs, 4, 5),
         category_code |-> SubSeq(uacs, 6, 8),
         status |-> category.status]

\* the rows of the sheet of the fund categories
FundCategoryRows ==
    {("UACS" :> x) @@ ("Fund Category" :> "Specific Budgets ")
        @@ ("Fund Sub-Category" :> "Specific Budgets")
        @@ ("Fund Cluster" :> "Regular Agency Fund")
        @@ ("Financing Source" :> "General Fund")
        @@ ("Authorization" :> "New General Appropriations")
        @@ ("Status" :> "Active") : x \in CodesUpTo("01101101")}

\* convert_barangay_with_api without the API: the body of its loop over the
\* rows of the sheet
barangay_from_excel(row) ==
    LET psgc == zfill(strip(row.UACS), 9)
    IN  [code |-> SubSeq(psgc, 7, 9),
         description |-> "Barangay " \o SubSeq(psgc, 7, 9),
         region_code |-> SubSeq(psgc, 1, 2),
         province_code |-> SubSeq(psgc, 3, 4),
         city_code |-> SubSeq(psgc, 5, 6),
         psgc_code |-> psgc,
         region_name |-> "",
         province_name |-> "",
         city_municipality_name |-> "",
         date_activated |-> Null,
         date_deactivated |-> Null,
         status |-> strip(row.Status)]

\* the rows of the sheet of the barangays
BarangayRows == [UACS : CodesUpTo("199908002"), Status : {"Active "}]

\* parse_prexc_code with the three reserved digits of its docstring
parse_prexc_code_reserved3(prexc_code) ==
    LET code == zfill(prexc_code, 15)
    IN  [full_code |-> code,
         sector_horizontal |-> SubSeq(code, 1, 1),
         cost_structure |-> SubSeq(code, 2, 2),
         org_outcome |-> SubSeq(code, 3, 4),
         program |-> SubSeq(code, 5, 6),
         sub_program |-> SubSeq(code, 7, 8),
         identifier |-> SubSeq(code, 9, 9),
         activity_project |-> SubSeq(code, 10, 14),
         reserved |-> SubSeq(code, 13, 15)]

parse_prexc_code(prexc_code) ==
    LET code == zfill(prexc_code, 15)
    IN  [full_code |-> code,
         sector_horizontal |-> SubSeq(code, 1, 1),
         cost_structure |-> SubSeq(code, 2, 2),
         org_outcome |-> SubSeq(code, 3, 4),
         program |-> SubSeq(code, 5, 6),
         sub_program |-> SubSeq(code, 7, 8),
         identifier |-> SubSeq(code, 9, 9),
         activity_project |-> SubSeq(code, 10, 14),
         reserved |-> SubSeq(code, 15, 15)]

\* the lists of n or less records from a set
RECURSIVE Lists(_, _)
Lists(set, n) ==
    IF n = 0 THEN {<<>>}
    ELSE Lists(set, n - 1) \cup {Append(l, r) : l \in Lists(set, n - 1), r \in set}

\* the longest list of records handed to convert_prexc_records
MaxPrexcRecords == 3

\* the entries of load_sector_outcomes a sector code followed by "00" can name
sector_outcomes ==
    ("100" :> "General public services") @@ ("200" :> "Housing and community amenities")

\* d[key] = value whether or not the key is in the dict: a key that is there
\* keeps its place
AddLast(d, key, value) ==
    IF \E i \in DOMAIN d : d[i].key = key
    THEN [i \in DOMAIN d |-> IF d[i].key = key THEN [key |-> key, value |-> value]
                             ELSE d[i]]
    ELSE Append(d, [key |-> key, value |-> value])

\* if key not in d: d[key] = value, a dict being the list of its items in
\* the order the keys were inserted
AddFirst(d, key, value) ==
    IF \E i \in DOMAIN d : d[i].key = key THEN d
    ELSE Append(d, [key |-> key, value |-> value])

\* the five dicts of convert_prexc_records after the loop over the records
RECURSIVE convert_prexc_records(_)
convert_prexc_records(nep_records) ==
    IF nep_records = <<>>
    THEN [sectors |-> <<>>, org_outcomes |-> <<>>, programs |-> <<>>,
          sub_programs |-> <<>>, activities |-> <<>>]
    ELSE
    LET d == convert_prexc_records(SubSeq(nep_records, 1, Len(nep_records) - 1))
        record == nep_records[Len(nep_records)]
        get(key, default) == IF key \in DOMAIN record THEN record[key] ELSE default
        prexc_id == zfill(get("PREXC_FPAP_ID", ""), 15)
        parsed == parse_prexc_code(prexc_id)
        level == get("PREXC_LEVEL", 0)
        description == get("DSC", "")
        sector_code == parsed.sector_horizontal
        oo_code == parsed.org_outcome
        prog_code == parsed.program
        prog_key == oo_code \o "-" \o prog_code
        subprog_code == parsed.sub_program
        subprog_key == prog_key \o "-" \o subprog_code
        act_code == parsed.activity_project
        act_key == subprog_key \o "-" \o act_code
        cost_structure_name ==
            CASE parsed.cost_structure = "1" -> "General Administration and Support (GAS)"
              [] parsed.cost_structure = "2" -> "Support to Operations (STO)"
              [] parsed.cost_structure = "3" -> "Operations"
              [] parsed.cost_structure = "4" -> "Special Purpose Funds (SPF)"
              [] OTHER -> "Unknown (" \o parsed.cost_structure \o ")"
        identifier_type ==
            CASE parsed.identifier = "1" -> "Activity"
              [] parsed.identifier = "2" -> "Locally-Funded Project (LFP)"
              [] parsed.identifier = "3" -> "Foreign-Assisted Project (FAP)"
              [] OTHER -> "Unknown (" \o parsed.identifier \o ")"
    IN  IF prexc_id = "000000000000000" THEN d
        ELSE
        [sectors |->
            AddFirst(d.sectors, sector_code,
                [code |-> sector_code,
                 description |->
                    IF sector_code \o "00" \in DOMAIN sector_outcomes
                    THEN sector_outcomes[sector_code \o "00"]
                    ELSE "Sector " \o sector_code,
                 type |-> "sector"]),
         org_outcomes |->
            IF oo_code = "00" THEN d.org_outcomes
            ELSE AddFirst(d.org_outcomes, oo_code,
                    [code |-> oo_code,
                     description |-> "Organizational Outcome " \o oo_code,
                     sector_code |-> sector_code,
                     cost_structure |-> cost_structure_name]),
         programs |->
            IF prog_code = "00" THEN d.programs
            ELSE AddFirst(d.programs, prog_key,
                    [code |-> prog_code,
                     full_code |-> SubSeq(prexc_id, 1, 6),
                     description |-> IF level = 3 THEN description
                                     ELSE "Program " \o prog_code,
                     org_outcome_code |-> oo_code,
                     sector_code |-> sector_code]),
         sub_programs |->
            IF subprog_code = "00" THEN d.sub_programs
            ELSE AddFirst(d.sub_programs, subprog_key,
                    [code |-> subprog_code,
                     full_code |-> SubSeq(prexc_id, 1, 8),
                     description |-> IF level = 4 THEN description
                                     ELSE "Sub-program " \o subprog_code,
                     program_code |-> prog_code,
                     org_outcome_code |-> oo_code]),
         activities |->
            IF act_code = "00000" THEN d.activities
            ELSE AddFirst(d.activities, act_key,
                    [code |-> act_code,
                     full_code |-> SubSeq(prexc_id, 1, 14),
                     description |-> description,
                     prexc_id |-> prexc_id,
                     level |-> level,
                     identifier_type |-> identifier_type,
                     sub_program_code |-> subprog_code,
                     program_code |-> prog_code,
                     org_outcome_code |-> oo_code,
                     sector_code |-> sector_code])]

\* the records handed to convert_prexc_records: two activities of one
\* sub-program that differ in the identifier only, a program of another
\* sector, and a record without a program code
PrexcRecords ==
    LET Record(id, level, dsc) == [PREXC_FPAP_ID |-> id, PREXC_LEVEL |-> level, DSC |-> dsc]
    IN  {Record("310101011000010", 7, "Roads"),
         Record("310101011000010", 3, "Bridges"),
         Record("310101012000010", 7, "Bridges"),
         Record("310101012000010", 4, "Roads"),
         Record("120201000000000", 3, "Bridges"),
         Record("120201000000000", 7, "Roads"),
         Record("0", 7, "Roads")}

(***************************************************************************)
(* A converter applied to one record                                       *)
(***************************************************************************)
ParseInit ==
    \/ parse \in [kind : {"budget"}, input : RawRecords, output : {<<>>}]
    \/ parse \in [kind : {"barangay"}, input : ApiRecords, output : {<<>>}]
    \/ parse \in [kind : {"operating_unit"}, input : OperatingUnitRows, output : {<<>>}]
    \/ parse \in [kind : {"fund_category"}, input : FundCategoryRows, output : {<<>>}]
    \/ parse \in [kind : {"barangay_row"}, input : BarangayRows, output : {<<>>}]
    \/ parse \in [kind : {"prexc"}, input : CodesUpTo("310400100002000"),
                   output : {<<>>}]
    \/ parse \in [kind : {"prexc_records"},
                   input : Lists(PrexcRecords, MaxPrexcRecords), output : {<<>>}]

\* no record is being converted
ParseIdle == parse = [kind |-> "none", input |-> <<>>, output |-> <<>>]

\* convert_record(record, budget_type, year, idx) for the first record of a file
ConvertRecord ==
    /\ parse.kind = "budget"
    /\ parse.output = <<>>
    /\ \E budget_type \in SeqToSet(BudgetTypes) :
          parse' = [parse EXCEPT
                      !.output = <<convert_record(parse.input, budget_type, FiscalYear, 1)>>]
    /\ UNCHANGED <<input_dir, output_dir, cpc, json_files, cur, history>>

ParseBarangay ==
    /\ parse.kind = "barangay"
    /\ parse.output = <<>>
    /\ parse' = [parse EXCEPT !.output = <<parse_barangay_from_api(parse.input)>>]
    /\ UNCHANGED <<input_dir, output_dir, cpc, json_files, cur, history>>

ConvertOperatingUnit ==
    /\ parse.kind = "operating_unit"
    /\ parse.output = <<>>
    /\ parse' = [parse EXCEPT !.output = <<convert_operating_unit(parse.input)>>]
    /\ UNCHANGED <<input_dir, output_dir, cpc, json_files, cur, history>>

\* FundingSourceConverter.convert_all: a row becomes a fund category, and
\* the fund category a funding source
ConvertFundCategory ==
    /\ parse.kind = "fund_category"
    /\ parse.output = <<>>
    /\ parse' = [parse EXCEPT !.output =
                    <<create_funding_source_composite(convert_fund_category(parse.input))>>]
    /\ UNCHANGED <<input_dir, output_dir, cpc, json_files, cur, history>>

ConvertBarangayRow ==
    /\ parse.kind = "barangay_row"
    /\ parse.output = <<>>
    /\ parse' = [parse EXCEPT !.output = <<barangay_from_excel(parse.input)>>]
    /\ UNCHANGED <<input_dir, output_dir, cpc, json_files, cur, history>>

ParsePrexcCode ==
    /\ parse.kind = "prexc"
    /\ parse.output = <<>>
    /\ parse' = [parse EXCEPT !.output = <<parse_prexc_code(parse.input)>>]
    /\ UNCHANGED <<input_dir, output_dir, cpc, json_files, cur, history>>

\* convert_prexc_records(nep_records): the values of the five dicts
ConvertPrexcRecords ==
    /\ parse.kind = "prexc_records"
    /\ parse.output = <<>>
    /\ LET d == convert_prexc_records(parse.input)
           Values(items) == [i \in DOMAIN items |-> items[i].value]
       IN  parse' = [parse EXCEPT !.output =
                        <<[sectors |-> Values(d.sectors),
                           organizational_outcomes |-> Values(d.org_outcomes),
                           programs |-> Values(d.programs),
                           sub_programs |-> Values(d.sub_programs),
                           activities |-> Values(d.activities)]>>]
    /\ UNCHANGED <<input_dir, output_dir, cpc, json_files, cur, history>>

(***************************************************************************)
(* The budget converter: convert_all over the files under input/           *)
(***************************************************************************)
\* str.lower()
RECURSIVE lower(_)
lower(s) ==
    IF s = "" THEN s
    ELSE LET c == Char(s, 1)
             l == IF Ord("9") < Ord(c) /\ Ord(c) < Ord("_")
                  THEN Char(CodePoints, Ord(c) + 27) ELSE c
         IN  l \o lower(SubSeq(s, 2, Len(s)))

\* a value that is neither None nor empty
Truthy(v) == v # Null /\ v # ""

detect_budget_type_and_year(record, filename) ==
    LET filename_upper == upper(filename)
        year_from_filename == Search4Digits(filename, "")
        year_or_unknown == IF year_from_filename = Null THEN "UNKNOWN"
                           ELSE year_from_filename
    IN  IF Contains(filename_upper, "GAA") THEN <<"GAA", year_or_unknown>>
        ELSE IF Contains(filename_upper, "NEP") THEN <<"NEP", year_or_unknown>>
        ELSE IF Truthy(record["YEAR"]) /\ Search4Digits(record["YEAR"], "") # Null
        THEN <<"GAA", Search4Digits(record["YEAR"], "")>>
        ELSE IF Truthy(record["LVL"]) /\ Search4Digits(record["LVL"], "FY") # Null
        THEN <<"NEP", Search4Digits(record["LVL"], "FY")>>
        ELSE <<"NEP", year_or_unknown>>

\* the values of a code field in the converted records
UniqueCodes(recs, field) ==
    {recs[i][field] : i \in {j \in DOMAIN recs : field \in DOMAIN recs[j]}}

\* budget-mapping.json, without total_amount and conversion_date
create_budget_mapping(recs, budget_type, year) ==
    [metadata |-> [budget_type |-> budget_type, fiscal_year |-> year,
                   total_records |-> Len(recs)],
     unique_codes |-> [organizations |-> UniqueCodes(recs, "org_uacs_code"),
                       funding_sources |-> UniqueCodes(recs, "funding_uacs_code"),
                       object_codes |-> UniqueCodes(recs, "object_uacs_code"),
                       regions |-> UniqueCodes(recs, "region_code"),
                       prexc_codes |-> UniqueCodes(recs, "prexc_fpap_id") \ {""}]]

\* the names of the input files
InputNames == {"gaa_2025.json", "nep_2025_a.json", "nep_2025_b.json", "budget.json"}

\* records from which the type and year of a file that does not name them
\* are detected
DetectRecords ==
    {BaseRecord, [BaseRecord EXCEPT !["YEAR"] = "2024"],
     [BaseRecord EXCEPT !["LVL"] = "FY2025 NEP"]}

\* the contents an input file of the name can have
FileContents(name) ==
    IF name = "budget.json" THEN Lists(DetectRecords, MaxFileRecords)
    ELSE Lists({BaseRecord}, MaxFileRecords)

\* the contents of input/
InputDirs ==
    {("gaa_2025.json" :> g) @@ ("nep_2025_a.json" :> a) @@ ("nep_2025_b.json" :> b)
        @@ ("budget.json" :> o) :
        g \in FileContents("gaa_2025.json"), a \in FileContents("nep_2025_a.json"),
        b \in FileContents("nep_2025_b.json"), o \in FileContents("budget.json")}

NoCur ==
    [file |-> "", budget_type |-> "", year |-> "", idx |-> 0, converted |-> <<>>,
     current_batch |-> <<>>, batch_files |-> <<>>, batch_number |-> 1]

ConvertIdle ==
    /\ input_dir = <<>>
    /\ output_dir = <<>>
    /\ cpc = "idle"
    /\ json_files = <<>>
    /\ cur = NoCur
    /\ history = <<>>

ConvIdle == ParseIdle /\ ConvertIdle

ConvertInit ==
    /\ input_dir \in InputDirs
    /\ output_dir = <<>>
    /\ cpc = "idle"
    /\ json_files = <<>>
    /\ cur = NoCur
    /\ history = <<>>

\* convert_all up to its loop over the files
convert_all ==
    /\ cpc = "idle"
    /\ json_files' = sorted(DOMAIN input_dir)
    /\ cpc' = IF json_files' = <<>> THEN "done" ELSE "files"
    /\ UNCHANGED <<parse, input_dir, output_dir, cur, history>>

\* convert_file(input_file) up to its loop over the records
convert_file ==
    /\ cpc = "files"
    /\ json_files # <<>>
    /\ LET input_file == Head(json_files)
           recs == input_dir[input_file]
       IN  IF recs = <<>>
           THEN /\ json_files' = Tail(json_files)
                /\ UNCHANGED <<cpc, cur>>
           ELSE LET detected == detect_budget_type_and_year(recs[1], input_file)
                IN  /\ cur' = [NoCur EXCEPT !.file = input_file,
                                            !.budget_type = detected[1],
                                            !.year = detected[2]]
                    /\ cpc' = "records"
                    /\ UNCHANGED json_files
    /\ UNCHANGED <<parse, input_dir, output_dir, history>>

\* one iteration of for idx, record in enumerate(records, start=1)
ConvertNext ==
    /\ cpc = "records"
    /\ LET recs == input_dir[cur.file]
           idx == cur.idx + 1
           converted_record == convert_record(recs[idx], cur.budget_type,
                                              cur.year, idx)
           current_batch == Append(cur.current_batch, converted_record)
           full == Len(current_batch) >= convert_batch_size \/ idx = Len(recs)
           batch_filename == lower(cur.budget_type) \o "_" \o cur.year \o "_batch_"
                                \o zfill(ToString(cur.batch_number), 4) \o ".json"
       IN  /\ output_dir' =
                 IF full
                 THEN Put(output_dir, cur.year \o "/items/" \o batch_filename,
                          current_batch)
                 ELSE output_dir
           /\ cur' = [cur EXCEPT
                        !.idx = idx,
                        !.converted = Append(@, converted_record),
                        !.current_batch = IF full THEN <<>> ELSE current_batch,
                        !.batch_files = IF full THEN Append(@, batch_filename) ELSE @,
                        !.batch_number = IF full THEN @ + 1 ELSE @]
           /\ history' = Append(history, <<cur.file, idx, converted_record["id"]>>)
           /\ cpc' = IF idx = Len(recs) THEN "mapping" ELSE "records"
    /\ UNCHANGED <<parse, input_dir, json_files>>

\* convert_file after its loop: budget-mapping.json of the year is written
WriteMapping ==
    /\ cpc = "mapping"
    /\ output_dir' =
          Put(output_dir, cur.year \o "/budget-mapping.json",
              create_budget_mapping(cur.converted, cur.budget_type, cur.year)
                 @@ ("batch_info" :> [batch_size |-> convert_batch_size,
                                      total_batches |-> Len(cur.batch_files),
                                      batch_files |-> cur.batch_files]))
    /\ json_files' = Tail(json_files)
    /\ cur' = NoCur
    /\ cpc' = "files"
    /\ UNCHANGED <<parse, input_dir, history>>

\* convert_all after its loop over the files
ConvertComplete ==
    /\ cpc = "files"
    /\ json_files = <<>>
    /\ cpc' = "done"
    /\ UNCHANGED <<parse, input_dir, output_dir, json_files, cur, history>>

\* the fetcher at rest, for the behaviours of the loader
FetchIdle == FetchInit /\ start_page = 1 /\ end_page = 1 /\ batch_size = 1

NoFiles == [n \in FileNames |-> <<>>]

Init == FetchInit /\ LocIdle /\ SyncIdle /\ files = NoFiles /\ ValIdle /\ ConvIdle

Next ==
    \/ FetchBarangaysFromApi /\ UNCHANGED <<syncVars, valVars, convVars, locVars>>
    \/ BatchBegin /\ UNCHANGED <<syncVars, valVars, convVars, locVars>>
    \/ \E i \in 1..MaxPage, o \in Outcomes : FetchSinglePage(i, o) /\ UNCHANGED <<syncVars, valVars, convVars, locVars>>
    \/ \E i \in 1..MaxPage : Collect(i) /\ UNCHANGED <<syncVars, valVars, convVars, locVars>>
    \/ SaveCheckpoint /\ UNCHANGED <<syncVars, valVars, convVars, locVars>>
    \/ FetchComplete /\ UNCHANGED <<syncVars, valVars, convVars, locVars>>
    \/ Interrupt /\ UNCHANGED <<syncVars, valVars, convVars, locVars>>
    \/ RetryFailedPages /\ UNCHANGED <<syncVars, valVars, convVars, locVars>>
    \/ RetryFinish /\ UNCHANGED <<syncVars, valVars, convVars, locVars>>

Spec == Init /\ [][Next]_vars

(***************************************************************************)
(* SpecLocation: convert_all of the location converter over the fetcher,   *)
(* for the page range 1..2 of the remote source.                           *)
(***************************************************************************)
InitLocation == Init /\ start_page = 1 /\ end_page = 2

NextLocation ==
    \/ \E retry_failed \in BOOLEAN : LocationConvertAll(retry_failed) /\ UNCHANGED <<syncVars, valVars, convVars>>
    \/ LocationRetryReturned /\ UNCHANGED <<syncVars, valVars, convVars>>
    \/ LocationSaveBarangays /\ UNCHANGED <<syncVars, valVars, convVars>>
    \/ Standalone /\ FetchBarangaysFromApi /\ UNCHANGED <<syncVars, valVars, convVars, locVars>>
    \/ Standalone /\ RetryFailedPages /\ UNCHANGED <<syncVars, valVars, convVars, locVars>>
    \/ BatchBegin /\ UNCHANGED <<syncVars, valVars, convVars, locVars>>
    \/ \E i \in 1..MaxPage, o \in Outcomes : FetchSinglePage(i, o) /\ UNCHANGED <<syncVars, valVars, convVars, locVars>>
    \/ \E i \in 1..MaxPage : Collect(i) /\ UNCHANGED <<syncVars, valVars, convVars, locVars>>
    \/ SaveCheckpoint /\ UNCHANGED <<syncVars, valVars, convVars, locVars>>
    \/ FetchComplete /\ UNCHANGED <<syncVars, valVars, convVars, locVars>>
    \/ Interrupt /\ UNCHANGED <<syncVars, valVars, convVars, locVars>>
    \/ RetryFinish /\ UNCHANGED <<syncVars, valVars, convVars, locVars>>

SpecLocation == InitLocation /\ [][NextLocation]_vars

InitSync == FetchIdle /\ LocIdle /\ SyncInit /\ ValIdle /\ ConvIdle

NextSync ==
    \/ sync_all /\ UNCHANGED <<fetchVars, valVars, convVars, locVars>>
    \/ sync_funding_source /\ UNCHANGED <<fetchVars, valVars, convVars, locVars>>
    \/ sync_organization /\ UNCHANGED <<fetchVars, valVars, convVars, locVars>>
    \/ sync_location /\ UNCHANGED <<fetchVars, valVars, convVars, locVars>>
    \/ LocationPage /\ UNCHANGED <<fetchVars, valVars, convVars, locVars>>
    \/ sync_pap /\ UNCHANGED <<fetchVars, valVars, convVars, locVars>>
    \/ sync_object_code /\ UNCHANGED <<fetchVars, valVars, convVars, locVars>>
    \/ NoBatchFiles /\ UNCHANGED <<fetchVars, valVars, convVars, locVars>>
    \/ sync_budget_records /\ UNCHANGED <<fetchVars, valVars, convVars, locVars>>
    \/ BudgetPage /\ UNCHANGED <<fetchVars, valVars, convVars, locVars>>
    \/ save_regions /\ UNCHANGED <<fetchVars, valVars, convVars, locVars>>

SpecSync == InitSync /\ [][NextSync]_vars

\* the loader with a backend that can raise in every query
NextSyncErr ==
    \/ NextSync
    \/ UpsertRaises /\ UNCHANGED <<fetchVars, valVars, convVars, locVars>>
    \/ PageRaises /\ UNCHANGED <<fetchVars, valVars, convVars, locVars>>

SpecSyncErr == InitSync /\ [][NextSyncErr]_vars

\* the loader run again and again on one NEP record, the batch files written
\* anew in between, with a backend that can raise in a simple derivation
InitRerun ==
    /\ InitSync
    /\ Len(files["NEP"]) = 1
    /\ Len(files["Region"]) = 1

NextRerun ==
    \/ sync_all /\ UNCHANGED <<fetchVars, valVars, convVars, locVars>>
    \/ sync_funding_source /\ UNCHANGED <<fetchVars, valVars, convVars, locVars>>
    \/ sync_organization /\ UNCHANGED <<fetchVars, valVars, convVars, locVars>>
    \/ sync_location /\ UNCHANGED <<fetchVars, valVars, convVars, locVars>>
    \/ LocationPage /\ UNCHANGED <<fetchVars, valVars, convVars, locVars>>
    \/ sync_pap /\ UNCHANGED <<fetchVars, valVars, convVars, locVars>>
    \/ sync_object_code /\ UNCHANGED <<fetchVars, valVars, convVars, locVars>>
    \/ ObjectDerivationRaises /\ UNCHANGED <<fetchVars, valVars, convVars, locVars>>
    \/ NoBatchFiles /\ UNCHANGED <<fetchVars, valVars, convVars, locVars>>
    \/ sync_budget_records /\ UNCHANGED <<fetchVars, valVars, convVars, locVars>>
    \/ BudgetPage /\ UNCHANGED <<fetchVars, valVars, convVars, locVars>>
    \/ save_batches /\ UNCHANGED <<fetchVars, valVars, convVars, locVars>>

SpecRerun == InitRerun /\ [][NextRerun]_vars

\* the loader run once, and the validator run on the store before or after
NextValidate ==
    \/ vstatus = "idle" /\ sync_all /\ nodes = EmptyStore /\ UNCHANGED <<fetchVars, valVars, convVars, locVars>>
    \/ sync_funding_source /\ UNCHANGED <<fetchVars, valVars, convVars, locVars>>
    \/ sync_organization /\ UNCHANGED <<fetchVars, valVars, convVars, locVars>>
    \/ sync_location /\ UNCHANGED <<fetchVars, valVars, convVars, locVars>>
    \/ LocationPage /\ UNCHANGED <<fetchVars, valVars, convVars, locVars>>
    \/ sync_pap /\ UNCHANGED <<fetchVars, valVars, convVars, locVars>>
    \/ sync_object_code /\ UNCHANGED <<fetchVars, valVars, convVars, locVars>>
    \/ NoBatchFiles /\ UNCHANGED <<fetchVars, valVars, convVars, locVars>>
    \/ sync_budget_records /\ UNCHANGED <<fetchVars, valVars, convVars, locVars>>
    \/ BudgetPage /\ UNCHANGED <<fetchVars, valVars, convVars, locVars>>
    \/ validate_all /\ UNCHANGED <<fetchVars, convVars, locVars>>
    \/ Check /\ UNCHANGED <<fetchVars, convVars, locVars>>

SpecValidate == InitSync /\ [][NextValidate]_vars

\* a converter applied to one record
InitParse ==
    /\ FetchIdle /\ LocIdle /\ SyncIdle /\ files = NoFiles /\ ValIdle
    /\ ParseInit /\ ConvertIdle

NextParse ==
    \/ ConvertRecord /\ UNCHANGED <<fetchVars, syncVars, valVars, locVars>>
    \/ ParseBarangay /\ UNCHANGED <<fetchVars, syncVars, valVars, locVars>>
    \/ ConvertOperatingUnit /\ UNCHANGED <<fetchVars, syncVars, valVars, locVars>>
    \/ ConvertFundCategory /\ UNCHANGED <<fetchVars, syncVars, valVars, locVars>>
    \/ ConvertBarangayRow /\ UNCHANGED <<fetchVars, syncVars, valVars, locVars>>
    \/ ParsePrexcCode /\ UNCHANGED <<fetchVars, syncVars, valVars, locVars>>
    \/ ConvertPrexcRecords /\ UNCHANGED <<fetchVars, syncVars, valVars, locVars>>

SpecParse == InitParse /\ [][NextParse]_vars

\* one run of the budget converter
InitConvert ==
    /\ FetchIdle /\ LocIdle /\ SyncIdle /\ files = NoFiles /\ ValIdle
    /\ ParseIdle /\ ConvertInit

NextConvert ==
    \/ convert_all /\ UNCHANGED <<fetchVars, syncVars, valVars, locVars>>
    \/ convert_file /\ UNCHANGED <<fetchVars, syncVars, valVars, locVars>>
    \/ ConvertNext /\ UNCHANGED <<fetchVars, syncVars, valVars, locVars>>
    \/ WriteMapping /\ UNCHANGED <<fetchVars, syncVars, valVars, locVars>>
    \/ ConvertComplete /\ UNCHANGED <<fetchVars, syncVars, valVars, locVars>>

SpecConvert == InitConvert /\ [][NextConvert]_vars

(***************************************************************************)
(* Properties of the fetcher                                               *)
(***************************************************************************)
\* the pages start_page..end_page
PageRange == {p \in Pages : start_page <= p /\ p <= end_page}

\* the number of the batch page p falls in, counted from 0
BatchIndex(p) == (p - start_page) \div batch_size

\* the pages the checkpoints of this invocation cover
Covered == UNION {k[1]..k[2] : k \in SeqToSet(written)}

\* the pages whose request of this invocation failed, whichever way
FailedPages == {p \in Pages : outcome[p] \in {"error", "empty", "failed"}}

\* the pages whose request of this invocation brought records
OkPages == {p \in Pages : outcome[p] = "ok"}

\* C1: one invocation of fetch_barangays_from_api requests every page of
\* start_page..end_page exactly once and no other page; the batches are
\* consecutive ranges of at most batch_size pages starting at start_page and
\* ending at end_page, and no page of a batch is requested before every page
\* of the batches before it has been requested and its result taken.
C1_EveryPageOnce ==
    op = "fetch" =>
      /\ \A p \in Pages : /\ requested[p] <= 1
                          /\ p \notin PageRange => requested[p] = 0
      /\ pc = "done" => \A p \in PageRange : requested[p] = 1
      /\ \A i \in DOMAIN written :
            /\ written[i][1] <= written[i][2]
            /\ written[i][2] - written[i][1] + 1 <= batch_size
            /\ written[i][1] = IF i = 1 THEN start_page
                                        ELSE written[i - 1][2] + 1
      /\ (pc = "done" /\ start_page <= end_page) =>
            /\ written # <<>>
            /\ written[Len(written)][2] = end_page
      /\ \A p \in PageRange, q \in PageRange :
            (BatchIndex(p) < BatchIndex(q) /\ requested[q] >= 1) =>
               /\ requested[p] = 1
               /\ p \in Covered

\* a fetch over two batches, one of them of two pages, has completed with a
\* failed page
C1_Witness ==
    /\ op = "fetch"
    /\ pc = "done"
    /\ Len(written) = 2
    /\ \E i \in DOMAIN written : written[i][2] > written[i][1]
    /\ FailedPages # {}

\* C2: when fetch_batch returns, every page of its list has been requested,
\* every page whose request failed is on the failed list, and the records of
\* every page that succeeded are in the record list: a failed page does not
\* end the batch.
C2_FailureDoesNotAbortBatch ==
    [][(pc = "pool" /\ pc' # "pool") =>
         \A i \in DOMAIN pages :
            /\ requested[pages[i]] >= 1
            /\ outcome[pages[i]] \in {"error", "empty"} =>
                  pages[i] \in SeqToSet(failed)
            /\ outcome[pages[i]] = "ok" =>
                  \A r \in SeqToSet(PageData(pages[i])) : r \in SeqToSet(records)]_vars

\* every result of a batch has been taken, one page's request raised an
\* error and another page's brought its records
C2_Witness ==
    /\ pc = "pool"
    /\ \A i \in DOMAIN fut : fut[i] = "collected"
    /\ \E i \in DOMAIN pages, j \in DOMAIN pages :
          /\ outcome[pages[i]] = "error"
          /\ outcome[pages[j]] = "ok"
          /\ pages[i] \in SeqToSet(failed)
          /\ <<pages[j], 1>> \in SeqToSet(records)

\* C3: after a fetch has completed its range with at least one failed page,
\* failed_pages.json lists exactly the pages that failed in any batch of the
\* run, each once, total_failed is their number, and the pages that
\* succeeded are all the others of the range.
C3_ManifestListsFailedPages ==
    (op = "fetch" /\ pc = "done" /\ FailedPages # {}) =>
      /\ manifest # <<>>
      /\ SeqToSet(manifest[1].failed_pages) = FailedPages
      /\ Len(manifest[1].failed_pages) = Cardinality(FailedPages)
      /\ manifest[1].total_failed = Cardinality(FailedPages)
      /\ Cardinality(OkPages) = Cardinality(PageRange) - Cardinality(FailedPages)

\* a fetch of three pages in two batches has completed with a failed page in
\* each batch and one page that succeeded
C3_Witness ==
    /\ op = "fetch"
    /\ pc = "done"
    /\ Len(written) = 2
    /\ \A i \in DOMAIN written :
          \E p \in FailedPages : written[i][1] <= p /\ p <= written[i][2]
    /\ Cardinality(OkPages) = 1
    /\ manifest # <<>>
    /\ Len(manifest[1].failed_pages) = 2

\* C4: after retry_failed_pages has run on a manifest with a non-empty
\* failed_pages list, the manifest is gone if every retried page succeeded;
\* otherwise its failed_pages are exactly the pages that failed again, a
\* subset of the previous list, and its retry_attempt is one more than the
\* previous value, a missing counter counting as 0.
C4_RetryRewritesManifest ==
    (op = "retry" /\ pc = "done" /\ failed_data.failed_pages # <<>>) =>
      LET again == {p \in Pages : outcome[p] \in {"error", "empty"}}
          previous == IF "retry_attempt" \in DOMAIN failed_data
                      THEN failed_data.retry_attempt ELSE 0
      IN  IF again = {}
          THEN manifest = <<>>
          ELSE /\ manifest # <<>>
               /\ SeqToSet(manifest[1].failed_pages) = again
               /\ again \subseteq SeqToSet(failed_data.failed_pages)
               /\ manifest[1].retry_attempt = previous + 1

\* a second retry has ended with fewer failed pages than it was given and
\* has raised the counter from 1 to 2
C4_Witness ==
    /\ op = "retry"
    /\ pc = "done"
    /\ "retry_attempt" \in DOMAIN failed_data
    /\ failed_data.retry_attempt = 1
    /\ manifest # <<>>
    /\ manifest[1].retry_attempt = 2
    /\ Len(manifest[1].failed_pages) < Len(failed_data.failed_pages)

\* C5: a retry requests exactly the pages listed in the manifest's
\* failed_pages, each once, and no page that is not listed.
C5_RetryRequestsListedPages ==
    op = "retry" =>
      \A p \in Pages :
         /\ requested[p] <= 1
         /\ p \notin SeqToSet(failed_data.failed_pages) => requested[p] = 0
         /\ (pc = "done" /\ p \in SeqToSet(failed_data.failed_pages)) =>
               requested[p] = 1

\* a retry of pages 1 and 3 has ended without a request for page 2
C5_Witness ==
    /\ op = "retry"
    /\ pc = "done"
    /\ failed_data.failed_pages = <<1, 3>>
    /\ requested[1] = 1
    /\ requested[2] = 0
    /\ requested[3] = 1

\* a checkpoint file left by an earlier invocation that records page p as
\* succeeded
RecordedSucceeded(k, p) ==
    /\ k \in DOMAIN checkpoints
    /\ k \notin SeqToSet(written)
    /\ k[1] <= p
    /\ p <= k[2]
    /\ p \notin SeqToSet(checkpoints[k].failed_pages)

C7_OneCheckpointPerBatch ==
    op = "fetch" =>
      /\ \A i \in DOMAIN written, j \in DOMAIN written :
            i # j => written[i] # written[j]
      /\ (pc = "done" /\ start_page <= end_page) =>
            Len(written) = ((end_page - start_page) \div batch_size) + 1
      /\ \A i \in DOMAIN written :
            LET k == written[i]
                inBatch == k[1]..k[2]
            IN  /\ k \in DOMAIN checkpoints
                /\ checkpoints[k].batch_range = k
                /\ \A p \in inBatch :
                      requested[p] = 1 /\ outcome[p] \in {"ok", "failed"}
                /\ checkpoints[k].records_count =
                      RecsPerPage * Cardinality(OkPages \cap inBatch)
                /\ SeqToSet(checkpoints[k].failed_pages) = FailedPages \cap inBatch
                /\ Len(checkpoints[k].failed_pages) =
                      Cardinality(FailedPages \cap inBatch)
      /\ \A p \in PageRange, q \in PageRange :
            (requested[p] >= 1 /\ BatchIndex(q) < BatchIndex(p)) => q \in Covered

\* a fetch has completed with two checkpoints, the first one for a batch of
\* two pages of which one failed
C7_Witness ==
    /\ op = "fetch"
    /\ pc = "done"
    /\ Len(written) = 2
    /\ written[1][2] = written[1][1] + 1
    /\ Len(checkpoints[written[1]].failed_pages) = 1
    /\ checkpoints[written[1]].records_count = RecsPerPage
    /\ checkpoints[written[2]].failed_pages = <<>>


(***************************************************************************)
(* Properties of the loader                                                *)
(***************************************************************************)
\* the entity lists batch_create_nodes can be handed for a label: any version
\* of the label's reference file, or the budget records that are on disk
EntityLists(label) ==
    IF label = "BudgetRecord"
    THEN {files[type] : type \in {"NEP", "GAA"}}
    ELSE FileVersions(label)

\* the edges of one type
EdgesOf(type) == {e \in BagToSet(edges) : e[1] = type}

\* the budget record an edge starts from
RecordOf(e) == nodes["BudgetRecord"][e[2][2]]

\* C8: batch_create_nodes is idempotent.  On every store the loader reaches,
\* for every label and every entity list it can be handed there, applying the
\* upsert a second time with the same label, key and list leaves the store
\* exactly as the first application left it: the same nodes with the same
\* attributes.
C8_UpsertIdempotent ==
    \A label \in Labels : \A list \in EntityLists(label) \ {<<>>} :
        LET once == batch_create_nodes(nodes, label, list, KeyOf[label])
        IN  batch_create_nodes(once, label, list, KeyOf[label]) = once

\* a later run has upserted regions.json onto the Region node an earlier run
\* made (a budget record is already linked to it), from a file that lists the
\* region twice, and the province file onto its node
C8_Witness ==
    /\ spc = "object_code"
    /\ Len(files["Region"]) = 2
    /\ EdgesOf("LOCATED_IN_REGION") # {}
    /\ EdgesOf("HAS_PROVINCE") # {}
    /\ Len(nodes["Region"]) = 1
    /\ nodes["Region"][1] = files["Region"][2]

\* C9: in every state the loader reaches, re-runs of the whole pipeline
\* included, no two nodes of a label have the same value of the label's
\* uniqueness key, and no (parent, child) pair has more than one edge of a type.
C9_NoDuplicateNodesOrEdges ==
    /\ \A label \in Labels : \A i, j \in DOMAIN nodes[label] :
          i # j => nodes[label][i][KeyOf[label]] # nodes[label][j][KeyOf[label]]
    /\ \A e \in BagToSet(edges) : CopiesIn(e, edges) = 1

\* a re-run: the first paged derivation of a budget type has run to its end
\* again, over records that have their edges of the first and of the last
\* derivation from an earlier run, and the simple derivation has its edge
C9_Witness ==
    /\ spc = "paging"
    /\ sync.rel = 2
    /\ \E e \in EdgesOf("FUNDED_BY") : RecordOf(e)["budget_type"] = sync.type
    /\ \E e \in EdgesOf("CLASSIFIED_AS") : RecordOf(e)["budget_type"] = sync.type
    /\ EdgesOf("HAS_PROVINCE") # {}

\* derivation number r of the running or last sync_budget_records has terminated
Terminated(r) == sync.rel > r

\* the budget record at position i is of the given year and type, has the code
\* field of the derivation, and the target node at position j has that code as key
Matches(i, j, rel) ==
    LET br == nodes["BudgetRecord"][i]
        t == nodes[rel.target][j]
    IN  /\ br["fiscal_year"] = sync.year
        /\ br["budget_type"] = sync.type
        /\ rel.field \in DOMAIN br
        /\ rel.tkey \in DOMAIN t
        /\ t[rel.tkey] = br[rel.field]

\* C10: when a paged derivation of sync_budget_records has terminated, every
\* budget record of the year and type whose code field is present and equals
\* the key of an existing target node has the derivation's edge to that node,
\* however matching and non-matching records fall into the skip/limit windows.
C10_MatchingRecordsLinked ==
    \A r \in DOMAIN BudgetRels :
        Terminated(r) =>
            \A i \in DOMAIN nodes["BudgetRecord"] :
                \A j \in DOMAIN nodes[BudgetRels[r].target] :
                    Matches(i, j, BudgetRels[r]) =>
                        BagIn(<<BudgetRels[r].type, <<"BudgetRecord", i>>,
                                <<BudgetRels[r].target, j>>>>, edges)

\* sync_all is at rest, or has just finished the derivations of sync_location
\* or those of a budget type
DerivationsDone == spc \in {"idle", "object_code", BudgetTypes[2]}

\* C11: relationship derivation is idempotent.  Wherever sync_all has finished
\* a group of derivations or is at rest, running any derivation (the two
\* simple ones, the barangay paging loop, each budget paging loop of each
\* type) over the nodes as they are, and then a second time, leaves as many
\* edges of the derivation's type as the first run left.
C11_DerivationIdempotent ==
    DerivationsDone =>
        /\ \A rel \in {HasProvince, HasCity} :
              LET once == MergeEdges(edges, SimpleEdges(nodes, rel))
              IN  EdgeCount(MergeEdges(once, SimpleEdges(nodes, rel)), rel.type)
                      = EdgeCount(once, rel.type)
        /\ LET once == LocationPaging(nodes, edges, 0)
           IN  EdgeCount(LocationPaging(nodes, once, 0), HasBarangay.type)
                   = EdgeCount(once, HasBarangay.type)
        /\ \A type \in SeqToSet(BudgetTypes) : \A r \in DOMAIN BudgetRels :
              LET once == BudgetPaging(nodes, edges, FiscalYear, type, r, 0)
              IN  EdgeCount(BudgetPaging(nodes, once, FiscalYear, type, r, 0),
                            BudgetRels[r].type)
                      = EdgeCount(once, BudgetRels[r].type)

\* a later run has derived the location relationships again: every matching
\* barangay has its edge, and the edges of the last budget derivation of an
\* earlier run are there
C11_Witness ==
    /\ spc = "object_code"
    /\ EdgesOf("CLASSIFIED_AS") # {}
    /\ EdgesOf("HAS_CITY") # {}
    /\ Cardinality(EdgesOf("HAS_BARANGAY")) = MaxBarangays - 1

\* the step of sync_all that is taken is the end of its last step: the last
\* budget type has no batch files, or its last paging loop ends
LastStepEnds ==
    \/ spc = BudgetTypes[2] /\ files[spc] = <<>>
    \/ /\ spc = "paging"
       /\ sync.type = BudgetTypes[2]
       /\ sync'.rel = Len(BudgetRels) + 1

\* C12: a backend error raised by a node upsert or a relationship derivation
\* during sync_all is caught and counted as zero affected, and every remaining
\* entity type, relationship and dimension of the run is still processed: a
\* run that has started returns only from the end of its last step.
C12_RunProcessesEveryStep ==
    [][(spc # "idle" /\ spc' = "idle") => LastStepEnds]_vars

\* the count the next page of the running budget paging loop returns
BudgetCount ==
    LET rel == BudgetRels[sync.rel]
    IN  Cardinality(PageEdges(nodes,
            Window(Candidates(nodes, sync.year, sync.type, rel), sync.offset), rel))

\* the count the next page of the barangay paging loop returns
LocationCount ==
    Len(WindowOf(JoinedRows(nodes, HasBarangay), loc.offset, city_rel_batch))

\* an iteration of a paging loop that returned a non-zero count moves the
\* offset on by exactly the page size and stays in the loop; one that returned
\* zero ends the loop
PagingStep ==
    /\ spc = "paging" =>
          IF BudgetCount # 0
          THEN /\ spc' = "paging"
               /\ sync'.rel = sync.rel
               /\ sync'.offset = sync.offset + rel_batch
          ELSE \/ spc' = "paging" /\ sync'.rel = sync.rel + 1 /\ sync'.offset = 0
               \/ spc' # "paging" /\ sync.rel = Len(BudgetRels)
    /\ spc = "barangay_paging" =>
          IF LocationCount # 0
          THEN spc' = "barangay_paging" /\ loc'.offset = loc.offset + city_rel_batch
          ELSE spc' = "pap"

\* the offset of a running paging loop is a whole number of pages and has
\* not passed the end of the rows the loop reads by a page or more: the loop
\* has made at most one iteration per page of rows
OffsetBounded ==
    /\ spc = "paging" =>
          /\ sync.offset % rel_batch = 0
          /\ sync.offset < rel_batch + Len(Candidates(nodes, sync.year, sync.type,
                                                      BudgetRels[sync.rel]))
    /\ spc = "barangay_paging" =>
          /\ loc.offset % city_rel_batch = 0
          /\ loc.offset < city_rel_batch + Len(JoinedRows(nodes, HasBarangay))

\* C14: every paging loop of the loader (city to barangay, and the four of the
\* budget records) moves its offset on by exactly the page size on each
\* iteration that returned a non-zero count, stops at the first page that
\* returns zero, and terminates after finitely many iterations: its offset
\* never passes the end of the finitely many rows it reads by a page or more,
\* so it makes no more iterations than there are pages of rows, plus one.
C14_PagingLoopsTerminate ==
    /\ [][PagingStep]_vars
    /\ []OffsetBounded

\* a budget paging loop is at its third page after two pages that returned
\* something, and the barangay loop has linked every matching barangay
C14_Witness ==
    /\ spc = "paging"
    /\ sync.offset = 2 * rel_batch
    /\ sync.total_count > rel_batch
    /\ Cardinality(EdgesOf("HAS_BARANGAY")) = MaxBarangays - 1

(***************************************************************************)
(* Properties of the validator                                             *)
(***************************************************************************)

\* C13: a validation query that raises is recorded as an error result for its
\* check only and does not abort the run: validate_all never ends on an
\* exception, and when it has ended it has run every one of its checks.
C13_ErrorDoesNotAbortValidation ==
    /\ vstatus # "raised"
    /\ vstatus = "complete" => check = Len(Checks)

\* the budget records that carry an edge of the type
RecordsWith(type) ==
    {i \in DOMAIN nodes["BudgetRecord"] :
        \E e \in BagToSet(edges) : e[1] = type /\ e[2] = <<"BudgetRecord", i>>}

\* what validate_all has printed for the coverage check
CoveragePrinted ==
    {printed[k].data : k \in {j \in DOMAIN printed :
                                printed[j].description = Checks[CoverageCheck].description}}

\* C15: once the coverage check has run, with N budget records loaded of
\* which M carry a FUNDED_BY edge, the funding coverage reported is 100*M/N
\* whenever N > 0 (for every M from 0 to N), and with N = 0 nothing is
\* divided by zero.
C15_CoverageIsQuotient ==
    check >= CoverageCheck =>
        LET N == Len(nodes["BudgetRecord"])
            M == Cardinality(RecordsWith("FUNDED_BY"))
        IN  /\ N > 0 =>
                  \E data \in CoveragePrinted :
                      /\ data # {}
                      /\ \A row \in data : row.fund_pct = Quotient(100 * M, N)
            /\ N = 0 =>
                  \A data \in CoveragePrinted :
                      \A row \in data : row.fund_pct # Quotient(100 * M, N)

(***************************************************************************)
(* Properties of the converters                                            *)
(***************************************************************************)
\* a converter has returned
Parsed(kind) == parse.kind = kind /\ parse.output # <<>>

\* a code consisting only of zeros
AllZero(s) == s # "" /\ \A i \in 1..Len(s) : Char(s, i) = "0"

\* a value that is None, empty or only blanks
Blank(v) == v = Null \/ \A i \in 1..Len(v) : Char(v, i) = " "

\* the fields of a converted record that hold a hierarchical code
CodeFieldNames == {"org_uacs_code", "funding_uacs_code", "region_code",
                   "object_uacs_code", "prexc_fpap_id"}

\* C16: a code consisting only of zeros is treated as absent at every width:
\* no code field of a converted budget record (region, funding, object,
\* organization, program) and no barangay's psgc_code is such a code.
C16_AllZeroCodeIsAbsent ==
    /\ Parsed("budget") =>
          \A f \in CodeFieldNames \cap DOMAIN parse.output[1] :
              ~AllZero(parse.output[1][f])
    /\ Parsed("barangay") => ~AllZero(parse.output[1].psgc_code)

\* a component that is present, not blank and not zero
NonZero(v) == ~Blank(v) /\ ~AllZero(strip(v))

\* C17: the record gets an organization code only when department, agency
\* and operating unit are each present, not blank and not zero, and the code
\* then has no zero-filled component.
C17_OrgCodeNeedsEveryComponent ==
    (Parsed("budget") /\ "org_uacs_code" \in DOMAIN parse.output[1]) =>
        /\ NonZero(parse.input["DEPARTMENT"])
        /\ NonZero(parse.input["AGENCY"])
        /\ NonZero(parse.input["OPERUNIT"])
        /\ ~AllZero(SubSeq(parse.output[1]["org_uacs_code"], 1, 2))
        /\ ~AllZero(SubSeq(parse.output[1]["org_uacs_code"], 3, 5))
        /\ ~AllZero(SubSeq(parse.output[1]["org_uacs_code"], 6, 12))

\* padded is s with zeros in front
IsPadded(s, padded) ==
    /\ Len(s) <= Len(padded)
    /\ SubSeq(padded, Len(padded) - Len(s) + 1, Len(padded)) = s
    /\ AllZero("0" \o SubSeq(padded, 1, Len(padded) - Len(s)))

\* code is the 12 characters of d padded to 2, a to 3 and o to 7
IsOrgCode(code, d, a, o) ==
    /\ Len(code) = 12
    /\ IsPadded(d, SubSeq(code, 1, 2))
    /\ IsPadded(a, SubSeq(code, 3, 5))
    /\ IsPadded(o, SubSeq(code, 6, 12))

\* the organization code of the converted record, Null if it has none
OrgCode ==
    IF "org_uacs_code" \in DOMAIN parse.output[1]
    THEN parse.output[1]["org_uacs_code"] ELSE Null

\* C18 as stated: for components no longer than 2, 3 and 7 characters the
\* organization code is the concatenation of the padded components, and it
\* is absent when a component is None.
C18_PaddedConcatenation ==
    Parsed("budget") =>
        LET d == parse.input["DEPARTMENT"]
            a == parse.input["AGENCY"]
            o == parse.input["OPERUNIT"]
        IN  IF d = Null \/ a = Null \/ o = Null THEN OrgCode = Null
            ELSE (Len(d) <= 2 /\ Len(a) <= 3 /\ Len(o) <= 7) =>
                    OrgCode # Null /\ IsOrgCode(OrgCode, d, a, o)

\* C18, amended: the organization code is absent when a component is None or
\* blank; otherwise, for trimmed components no longer than 2, 3 and 7
\* characters, it is absent when every component is zero and else it is the
\* 12-character concatenation of the trimmed components padded with zeros to
\* 2, 3 and 7 ("27","001","00001" gives "270010000001", "7","1","1" gives
\* "070010000001").
C18_PaddedConcatenationUnlessZero ==
    Parsed("budget") =>
        LET d == parse.input["DEPARTMENT"]
            a == parse.input["AGENCY"]
            o == parse.input["OPERUNIT"]
        IN  /\ IF Blank(d) \/ Blank(a) \/ Blank(o) THEN OrgCode = Null
               ELSE (Len(strip(d)) <= 2 /\ Len(strip(a)) <= 3 /\ Len(strip(o)) <= 7) =>
                       IF AllZero(strip(d)) /\ AllZero(strip(a)) /\ AllZero(strip(o))
                       THEN OrgCode = Null
                       ELSE /\ OrgCode # Null
                            /\ IsOrgCode(OrgCode, strip(d), strip(a), strip(o))
            /\ (d = "27" /\ a = "001" /\ o = "00001") => OrgCode = "270010000001"
            /\ (d = "7" /\ a = "1" /\ o = "1") => OrgCode = "070010000001"

\* the first example of the claim has been converted
C18_Witness ==
    /\ Parsed("budget")
    /\ parse.input["DEPARTMENT"] = "27"
    /\ parse.input["AGENCY"] = "001"
    /\ parse.input["OPERUNIT"] = "00001"
    /\ OrgCode = "270010000001"

\* the source fields of a code field of the converted record
SourcesOf(f, record) ==
    CASE f = "org_uacs_code" ->
            {record["DEPARTMENT"], record["AGENCY"], record["OPERUNIT"]}
      [] f = "funding_uacs_code" -> {record["FUNDCD"]}
      [] f = "region_code" -> {record["UACS_REG_ID"]}
      [] f = "object_uacs_code" -> {Or(record["UACS_SOBJ_CD"], record["UACS_OBJ_CD"])}

\* C19: a converted record has a code field (organization, funding, region,
\* object) only when its source was not blank and not zero-filled, and the
\* field it has is never empty or all zeros.
C19_CodeFieldsOnlyFromSources ==
    Parsed("budget") =>
        \A f \in (CodeFieldNames \ {"prexc_fpap_id"}) \cap DOMAIN parse.output[1] :
            /\ \A v \in SourcesOf(f, parse.input) : NonZero(v)
            /\ parse.output[1][f] # ""
            /\ ~AllZero(parse.output[1][f])

\* the last n characters of a string
Suffix(s, n) == SubSeq(s, Len(s) - n + 1, Len(s))

\* C20: every record converted in a run of convert_all has an id
\* TYPE-YEAR-<10 digits>, no two of them have the same id, and within a file
\* the ids increase in input order.
C20_IdsUniqueAndIncreasing ==
    /\ \A i \in DOMAIN history :
          LET id == history[i][3]
          IN  /\ \E type \in SeqToSet(BudgetTypes) :
                    /\ SubSeq(id, 1, Len(type) + 1) = type \o "-"
                    /\ Char(id, Len(id) - 10) = "-"
                    /\ Len(id) > Len(type) + 12
              /\ AllDigits(Suffix(id, 10))
    /\ \A i, j \in DOMAIN history :
          i < j =>
              /\ history[i][3] # history[j][3]
              /\ history[i][1] = history[j][1] =>
                    ToNat(Suffix(history[i][3], 10)) < ToNat(Suffix(history[j][3], 10))

\* the strings of a sequence, one after the other
RECURSIVE JoinAll(_)
JoinAll(parts) == IF parts = <<>> THEN "" ELSE Head(parts) \o JoinAll(Tail(parts))

\* the parts are the code cut at the given widths, which add up to its length
IsCutAt(code, parts, widths) ==
    /\ Len(parts) = Len(widths)
    /\ \A i \in DOMAIN parts : Len(parts[i]) = widths[i]
    /\ JoinAll(parts) = code

KeptRecords ==
    LET Kept(record) == ~ AllZero(zfill(record["PREXC_FPAP_ID"], 15))
    IN  SelectSeq(parse.input, Kept)

\* the uniqueness key of a kept record at a level: the codes that make it up,
\* or <<>> where the record names no entity of the level
LevelKey(level, record) ==
    LET p == parse_prexc_code(record["PREXC_FPAP_ID"])
    IN  CASE level = "sectors" -> <<p.sector_horizontal>>
          [] level = "organizational_outcomes" ->
                IF p.org_outcome = "00" THEN <<>> ELSE <<p.org_outcome>>
          [] level = "programs" ->
                IF p.program = "00" THEN <<>> ELSE <<p.org_outcome, p.program>>
          [] level = "sub_programs" ->
                IF p.sub_program = "00" THEN <<>>
                ELSE <<p.org_outcome, p.program, p.sub_program>>
          [] level = "activities" ->
                IF p.activity_project = "00000" THEN <<>>
                ELSE <<p.org_outcome, p.program, p.sub_program, p.activity_project>>

\* the uniqueness key an emitted entity of a level stands for
EntityKey(level, entity) ==
    CASE level = "sectors" -> <<entity.code>>
      [] level = "organizational_outcomes" -> <<entity.code>>
      [] level = "programs" -> <<entity.org_outcome_code, entity.code>>
      [] level = "sub_programs" ->
            <<entity.org_outcome_code, entity.program_code, entity.code>>
      [] level = "activities" ->
            <<entity.org_outcome_code, entity.program_code,
              entity.sub_program_code, entity.code>>

\* the description a record gives to the entity of a level
LevelDescription(level, record) ==
    LET p == parse_prexc_code(record["PREXC_FPAP_ID"])
    IN  CASE level = "sectors" ->
                IF p.sector_horizontal \o "00" \in DOMAIN sector_outcomes
                THEN sector_outcomes[p.sector_horizontal \o "00"]
                ELSE "Sector " \o p.sector_horizontal
          [] level = "organizational_outcomes" ->
                "Organizational Outcome " \o p.org_outcome
          [] level = "programs" ->
                IF record["PREXC_LEVEL"] = 3 THEN record["DSC"]
                ELSE "Program " \o p.program
          [] level = "sub_programs" ->
                IF record["PREXC_LEVEL"] = 4 THEN record["DSC"]
                ELSE "Sub-program " \o p.sub_program
          [] level = "activities" -> record["DSC"]

\* the positions, in order, of the kept records that are the first to carry
\* their key at a level
FirstOccurrences(level) ==
    LET First(i) ==
            /\ LevelKey(level, KeptRecords[i]) # <<>>
            /\ \A j \in 1..(i - 1) :
                  LevelKey(level, KeptRecords[j]) # LevelKey(level, KeptRecords[i])
    IN  SelectSeq([i \in 1..Len(KeptRecords) |-> i], First)

PrexcLevels ==
    {"sectors", "organizational_outcomes", "programs", "sub_programs", "activities"}

\* C22: convert_prexc_records emits at each level one entity per distinct
\* key, in the order in which the keys first occur in the input, and each
\* entity has the description derived from the first record with its key
C22_FirstOccurrenceWins ==
    Parsed("prexc_records") =>
        \A level \in PrexcLevels :
            LET out == parse.output[1][level]
                first == FirstOccurrences(level)
            IN  /\ Len(out) = Len(first)
                /\ \A n \in DOMAIN out :
                      /\ EntityKey(level, out[n]) = LevelKey(level, KeptRecords[first[n]])
                      /\ out[n].description =
                            LevelDescription(level, KeptRecords[first[n]])

\* three records: an activity described "Roads", a program of another sector,
\* and a later record with the key of the first described "Bridges"
C22_Witness ==
    /\ Parsed("prexc_records")
    /\ Len(parse.input) = 3
    /\ parse.input[1]["PREXC_FPAP_ID"] = "310101011000010"
    /\ parse.input[1]["DSC"] = "Roads"
    /\ parse.input[2]["PREXC_FPAP_ID"] = "120201000000000"
    /\ parse.input[3]["PREXC_FPAP_ID"] = "310101012000010"
    /\ parse.input[3]["DSC"] = "Bridges"
    /\ Len(parse.output[1]["activities"]) = 1
    /\ parse.output[1]["activities"][1].description = "Roads"
    /\ Len(parse.output[1]["sectors"]) = 2
    /\ parse.output[1]["sectors"][2].description = "General public services"

\* C23: retry_failed_pages called while there is no manifest file returns an
\* empty list at once: no page is requested, no future is submitted, no
\* manifest comes into being and the call ends as a return.
C23_NoManifestNothingToRetry ==
    [][(runs' = runs + 1 /\ op' = "retry" /\ manifest = <<>>) =>
          /\ pc' = "done"
          /\ result' = <<>>
          /\ requested' = NoPages
          /\ fut' = <<>>
          /\ manifest' = <<>>
          /\ checkpoints' = checkpoints]_vars

\* a retry called after a fetch in which no page failed has returned at once
C23_Witness ==
    /\ op = "retry"
    /\ pc = "done"
    /\ runs = 2
    /\ manifest = <<>>
    /\ failed_data = NoManifest
    /\ requested = NoPages
    /\ result = <<>>
    /\ checkpoints # <<>>

\* the number of times x is in the list
Occurrences(list, x) == Cardinality({i \in DOMAIN list : list[i] = x})

\* the pages of the running batch whose result the as_completed loop has taken
Taken == {pages[i] : i \in {j \in DOMAIN fut : fut[j] = "collected"}}

\* C24: whatever the order in which the futures of a batch complete, records
\* holds each record of every taken page that answered with data once and
\* nothing else, and failed holds every other taken page once and nothing
\* else; when fetch_batch returns every page of the batch has been taken.
C24_ResultIndependentOfCompletionOrder ==
    pc = "pool" =>
        /\ \A p \in Pages :
              /\ \A k \in 1..RecsPerPage :
                    Occurrences(records, <<p, k>>) =
                        IF p \in Taken /\ outcome[p] = "ok" THEN 1 ELSE 0
              /\ Occurrences(failed, p) =
                    IF p \in Taken /\ outcome[p] \in {"error", "empty"} THEN 1 ELSE 0
        /\ Len(records) = RecsPerPage * Cardinality({p \in Taken : outcome[p] = "ok"})
        /\ BatchReturned => Taken = SeqToSet(pages)

\* a batch of two pages has returned with the records of its second page
\* ahead of those of its first
C24_Witness ==
    /\ BatchReturned
    /\ Len(pages) = 2
    /\ Len(records) = 2 * RecsPerPage
    /\ records[1] = <<pages[2], 1>>
    /\ records[RecsPerPage + 1] = <<pages[1], 1>>

\* C25: the step that ends a fetch in which no page failed leaves the retry
\* manifest as it was, written or missing, so that the manifest of an earlier
\* run outlives a newer run in which its pages succeeded.
C25_CleanFetchKeepsManifest ==
    [][(op = "fetch" /\ pc = "loop" /\ pc' = "done" /\ all_failed_pages = <<>>) =>
          manifest' = manifest]_vars

\* a retry, the third invocation, has requested a page again although every
\* checkpoint, rewritten by the fetch before it, records no failed page
C25_Witness ==
    /\ op = "retry"
    /\ runs = 3
    /\ DOMAIN checkpoints # {}
    /\ \A k \in DOMAIN checkpoints : checkpoints[k].failed_pages = <<>>
    /\ \E p \in Pages :
          /\ requested[p] = 1
          /\ \E k \in DOMAIN checkpoints : k[1] <= p /\ p <= k[2]

\* C27: a page whose request was answered with an empty or missing data array
\* goes on the failed list when its result is taken and adds no record; the
\* batch checkpoint then lists it among failed_pages and holds no record of
\* it, and the manifest written at the end of the fetch lists it too.
C27_EmptyPageIsFailed ==
    [][/\ \A i \in DOMAIN fut :
             (pc = "pool" /\ fut[i] = "empty" /\ fut' # <<>> /\ fut'[i] = "collected") =>
                /\ failed' = Append(failed, pages[i])
                /\ records' = records
       /\ (op = "fetch" /\ pc = "pool" /\ pc' = "loop") =>
             \A p \in Pages : outcome[p] = "empty" =>
                LET cp == checkpoints'[<<batch_start, batch_end>>]
                IN  /\ p \in SeqToSet(cp.failed_pages)
                    /\ \A k \in 1..RecsPerPage : <<p, k>> \notin SeqToSet(cp.data)
                    /\ p \in SeqToSet(all_failed_pages')
                    /\ \A k \in 1..RecsPerPage : <<p, k>> \notin SeqToSet(all_barangays')
       /\ (op = "fetch" /\ pc = "loop" /\ pc' = "done") =>
             \A p \in SeqToSet(all_failed_pages) :
                /\ manifest' # <<>>
                /\ p \in SeqToSet(manifest'[1].failed_pages)
                /\ \A k \in 1..RecsPerPage : <<p, k>> \notin SeqToSet(result')
      ]_vars

\* fetch_batch has returned from a batch of two pages of which one answered
\* with data and the other with an empty array: the second is the one failed
\* page and the records are those of the first
C27_Witness ==
    /\ op = "fetch"
    /\ BatchReturned
    /\ Len(pages) = 2
    /\ outcome[pages[1]] = "ok"
    /\ outcome[pages[2]] = "empty"
    /\ failed = <<pages[2]>>
    /\ records = PageData(pages[1])

\* the entity maps on disk that batch_create_nodes is handed for a label
Incoming(label) ==
    IF label = "BudgetRecord" THEN files["NEP"] \o files["GAA"]
    ELSE IF label \in FileNames THEN files[label]
    ELSE <<>>

\* the incoming maps that are merged onto a node of the label
IncomingFor(label, node) ==
    {Incoming(label)[k] : k \in {j \in DOMAIN Incoming(label) :
        Incoming(label)[j][KeyOf[label]] = node[KeyOf[label]]}}

\* C26: a step of the loader leaves every node in place; an attribute of a
\* node that no incoming map for the node's key contains stays on the node
\* with its value, and an attribute that is new on the node or has another
\* value is in an incoming map for the key, with that value.
C26_UpsertKeepsMissingAttributes ==
    [][\A label \in Labels : \A i \in DOMAIN nodes[label] :
          /\ i \in DOMAIN nodes'[label]
          /\ \A a \in DOMAIN nodes[label][i] :
                (\A map \in IncomingFor(label, nodes[label][i]) : a \notin DOMAIN map) =>
                    /\ a \in DOMAIN nodes'[label][i]
                    /\ nodes'[label][i][a] = nodes[label][i][a]
          /\ \A a \in DOMAIN nodes'[label][i] :
                (a \notin DOMAIN nodes[label][i]
                    \/ nodes'[label][i][a] # nodes[label][i][a]) =>
                    \E map \in IncomingFor(label, nodes[label][i]) :
                        a \in DOMAIN map /\ map[a] = nodes'[label][i][a]
      ]_vars

\* the NEP record has been upserted again from a batch file in which it has
\* no code field: its node still has the funding code of the earlier load
C26_Witness ==
    /\ spc = "paging"
    /\ sync.type = "NEP"
    /\ "funding_uacs_code" \notin DOMAIN files["NEP"][1]
    /\ \E i \in DOMAIN nodes["BudgetRecord"] :
          /\ nodes["BudgetRecord"][i]["id"] = files["NEP"][1]["id"]
          /\ "funding_uacs_code" \in DOMAIN nodes["BudgetRecord"][i]
          /\ nodes["BudgetRecord"][i]["funding_uacs_code"] = "01101101"

\* the positions of the trace with a statement of the kind
Positions(kind) == {i \in DOMAIN trace : trace[i].kind = kind}

\* the steps of sync_all that load a reference dimension
ReferenceDimensions == {"funding_source", "organization", "location", "pap", "object_code"}

\* C28: in the statements of one sync_all run, the constraints come first and
\* before every upsert; within a reference dimension, and within a call of
\* sync_budget_records, every upsert comes before every derivation; and a
\* statement of sync_budget_records comes after statements of each of the
\* five reference dimensions and after every statement of theirs.
C28_LoadOrder ==
    LET budget == {j \in DOMAIN trace : trace[j].dim \in SeqToSet(BudgetTypes)}
        reference == {i \in DOMAIN trace : trace[i].dim \in ReferenceDimensions}
    IN  /\ trace # <<>> =>
              /\ Len(trace) >= Len(ConstraintLabels)
              /\ \A k \in DOMAIN ConstraintLabels :
                    trace[k] = Statement("constraints", "constraint", ConstraintLabels[k])
              /\ \A i \in Positions("constraint") : i <= Len(ConstraintLabels)
              /\ \A j \in Positions("upsert") : j > Len(ConstraintLabels)
        /\ \A j \in Positions("derive") :
              \A i \in (j + 1)..Len(trace) :
                  trace[i].kind = "upsert" => trace[i].dim # trace[j].dim
        /\ \A j \in budget :
              /\ \A d \in ReferenceDimensions : \E i \in reference : trace[i].dim = d
              /\ \A i \in reference : i < j

\* a run has come to its end after upserting and linking the records of both
\* budget types
C28_Witness ==
    /\ spc = "idle"
    /\ \E i, j \in Positions("upsert") :
          /\ trace[i].dim = BudgetTypes[1]
          /\ trace[j].dim = BudgetTypes[2]
    /\ trace[Len(trace)] = Statement(BudgetTypes[2], "derive", "CLASSIFIED_AS")
    /\ EdgesOf("CLASSIFIED_AS") # {}

\* the statements the step being taken sends
Sent == {trace'[i] : i \in (DOMAIN trace') \ (DOMAIN trace)}

\* the edges of the type between nodes of the two labels that the step being
\* taken creates
Created(type, parent, child) ==
    {e \in BagToSet(edges') \ BagToSet(edges) :
        e[1] = type /\ e[2][1] = parent /\ e[3][1] = child}

\* C29: sync_object_code sends the derivation over ExpenseObject nodes exactly
\* when its derivation over Object nodes has created no edge, be it that the
\* edges were there or that the backend raised, and likewise for the pair of
\* derivations to SubObject.
C29_FallbackIffNothingCreated ==
    [][(spc = "object_code" /\ spc' # spc) =>
          /\ Statement(spc, "derive", "ExpenseGroup -> ExpenseObject") \in Sent
                <=> Created("HAS_OBJECT", "ExpenseGroup", "Object") = {}
          /\ Statement(spc, "derive", "ExpenseObject -> SubObject") \in Sent
                <=> Created("HAS_SUB_OBJECT", "Object", "SubObject") = {}
      ]_vars

\* a re-run: sync_object_code has found the edge from the expense group to
\* the object in place and has sent the derivation over ExpenseObject nodes,
\* and has made the edge to the sub-object, missing until then, without one
C29_Witness ==
    /\ spc = BudgetTypes[1]
    /\ Statement("object_code", "derive", "ExpenseGroup -> ExpenseObject") \in SeqToSet(trace)
    /\ Statement("object_code", "derive", "ExpenseObject -> SubObject") \notin SeqToSet(trace)
    /\ EdgesOf("HAS_OBJECT") # {}
    /\ EdgesOf("HAS_SUB_OBJECT") # {}

\* the records of a list that came from page p
RecordsOf(p, list) == {r \in SeqToSet(list) : r[1] = p}

\* C30: in a run of convert_all with retry_failed and use_api, the step that
\* takes the result of the retry starts a fetch of start_page..end_page and
\* writes a non-empty result to barangays_retry_results.json; at the step
\* that builds the barangay list every page of the range has been requested
\* by that fetch, whether the manifest listed it or not, and the list holds
\* the records of the pages the fetch got, once each, and nothing of a page
\* the fetch lost, whatever the retry recovered of it.
C30_RetryThenFullFetch ==
    [][/\ (locconv.pc = "retry" /\ locconv'.pc = "fetch") =>
             /\ op' = "fetch"
             /\ pc' = "loop"
             /\ batch_start' = start_page
             /\ requested' = NoPages
             /\ locconv'.retry_records = result
             /\ result # <<>> => locconv'.retry_results = <<result>>
             /\ result = <<>> => locconv'.retry_results = locconv.retry_results
             /\ locconv'.barangays = locconv.barangays
       /\ (locconv.retry_failed /\ locconv.pc = "fetch" /\ locconv'.pc = "done") =>
             LET barangays == locconv'.barangays[1]
             IN  /\ \A p \in start_page..end_page : requested[p] = 1
                 /\ \A p \in Pages :
                       RecordsOf(p, barangays) =
                          IF outcome[p] = "ok" THEN SeqToSet(PageData(p)) ELSE {}
                 /\ Len(barangays) = Cardinality(SeqToSet(barangays))
                 /\ locconv'.retry_results = locconv.retry_results
      ]_vars

\* a run of convert_all with retry_failed has ended: the manifest listed page
\* 1 only, the retry recovered its records and they are in
\* barangays_retry_results.json; the fetch that followed requested page 2 as
\* well and lost page 1, so that barangays.json holds the records of page 2
\* and none of page 1
C30_Witness ==
    /\ locconv.pc = "done"
    /\ locconv.retry_failed
    /\ locconv.listed = <<1>>
    /\ locconv.retry_records = PageData(1)
    /\ locconv.retry_results = <<PageData(1)>>
    /\ op = "fetch"
    /\ pc = "done"
    /\ requested[2] = 1
    /\ outcome[1] = "failed"
    /\ outcome[2] = "ok"
    /\ locconv.barangays = <<PageData(2)>>

=============================================================================
